---- MODULE Spec2Model ----
(***************************************************************************)
(* Raffle engine of koishi-plugin-luckydraw: the activity store            *)
(* (src/src/raffle/handler.ts), the timer manager (src/src/raffle/timer.ts)*)
(* and the commands and listeners that drive them.                         *)
(*                                                                         *)
(* Every handler is an async function.  A handler runs without             *)
(* interruption up to the database call it awaits; the call takes effect   *)
(* in a later step, followed by the handler's code up to its next awaited  *)
(* call.  One action of the model is one such step.  getActivity awaits    *)
(* three reads (activity, prizes, participants); no operation writes two   *)
(* of these tables in one step, so the three reads are taken as one step.  *)
(*                                                                         *)
(* Time is the value of Date.now(), counted in steps of 2^30 ms (about     *)
(* 12.4 days), so that the longest delay the runtime's setTimeout takes,   *)
(* 2^31 - 1 ms, lies between one step and two.                             *)
(***************************************************************************)
EXTENDS Integers, Sequences, FiniteSets, TLC

\* ----- bounds of the model ------------------------------------------------
MaxActivities == 2
MaxCreates == 1
MaxUsers == 2
MaxTime == 1
MaxRestarts == 1
MaxJoins == 2
MaxCancels == 1
MaxFaults == 1
MaxLines == 2
MaxCount == 1
MaxLotteryDraws == 3
MaxPrizes == 2
MaxNone == 1

Activities == 1..MaxActivities
\* the ids raffle.create issues while the system runs; the other ids are in the
\* store from the start or never
CreateIds == 1..MaxCreates
Users == 1..MaxUsers
Times == 0..MaxTime
JoinIds == 1..MaxJoins
CancelIds == 1..MaxCancels
\* scheduleRaffleDraw / performRaffleDraw is called once per activity by the
\* create command and once per activity by every initializeRaffleTimers run,
\* so this many executions of performRaffleDraw can exist.
DrawIds == 1..(MaxActivities * (MaxRestarts + 1))
LotteryIds == 1..MaxLotteryDraws

VARIABLES
  now,                \* Date.now()
  raffle_activity,    \* table raffle_activity: id -> row [id, status, drawTime, announceMessageId]
  raffle_prize,       \* table raffle_prize: id -> sequence of prize-line counts
  raffle_participant, \* table raffle_participant: id -> rows (userId), in insertion order
  raffle_winner,      \* table raffle_winner: id -> rows [userId, prizeName, by]
  timers,             \* RaffleTimerManager.timers: activity id -> timeout handle
  timeouts,           \* live setTimeout handles of the event loop: [h, activityId, at]
  draws,              \* executions of performRaffleDraw
  joins,              \* executions of the keyword join listener
  cancels,            \* executions of the raffle.cancel command
  init,               \* the execution of initializeRaffleTimers
  creates,            \* the execution of the raffle.create command
  deletes,            \* the execution of deleteActivity
  storage,            \* where the lottery keeps its data: "file" (JSON files) or "database"
  lottery_prize,      \* the prizes of the lottery pool, in stored order: [id, none]
  user_lottery_draws, \* the draw counts of the pool: rows [userId, drawCount]
  lotteries,          \* executions of the lottery.draw command
  restarts,           \* number of process starts after the first
  faults              \* number of database calls that failed

storeVars == <<raffle_activity, raffle_prize, raffle_participant, raffle_winner>>
timerVars == <<timers, timeouts>>
taskVars == <<draws, joins, cancels, init>>
envVars == <<now, restarts, faults>>
lotteryVars == <<storage, lottery_prize, user_lottery_draws, lotteries>>
vars == <<now, raffle_activity, raffle_prize, raffle_participant, raffle_winner,
          timers, timeouts, draws, joins, cancels, init, creates, deletes,
          storage, lottery_prize, user_lottery_draws, lotteries, restarts, faults>>

\* ----- helpers -------------------------------------------------------------
Min(a, b) == IF a < b THEN a ELSE b

Range(s) == {s[k] : k \in DOMAIN s}

\* a variant of the splice that takes the first element out, whatever the index
RemoveFirst(s, k) == Tail(s)

RemoveAt(s, k) == [x \in 1..(Len(s) - 1) |-> IF x < k THEN s[x] ELSE s[x + 1]]

RECURSIVE SumCounts(_)
SumCounts(pz) == IF pz = <<>> THEN 0 ELSE Head(pz) + SumCounts(Tail(pz))

\* prize lists a create command can attach: 1..MaxLines lines, counts 1..MaxCount
PrizeLists == UNION {[1..n -> 1..MaxCount] : n \in 1..MaxLines}

\* the place of an id that has no row in raffle_activity
NoActivity == [id |-> 0, status |-> "absent", drawTime |-> 0, announceMessageId |-> 0]

Statuses == {"pending", "active", "drawn", "cancelled"}

\* a row of raffle_activity as it is inserted; announceMessageId 0: no announce
\* message is recorded
Row(a, status, drawTime) ==
  [id |-> a, status |-> status, drawTime |-> drawTime, announceMessageId |-> 0]

IdleDraw == [pc |-> "idle", activityId |-> 0, found |-> 0, prizes |-> <<>>,
             participants |-> <<>>, availableParticipants |-> <<>>,
             line |-> 0, i |-> 0, winners |-> <<>>,
             threw |-> "no", notice |-> "none"]

\* raffleData: the content of the raffle file a command of the file-backed
\* version holds in memory between loadRaffleData and saveRaffleData
NoData == <<>>

IdleJoin == [pc |-> "idle", activityId |-> 0, userId |-> 0, result |-> "none",
             raffleData |-> NoData]

IdleCancel == [pc |-> "idle", activityId |-> 0, result |-> "none", savedAt |-> 0,
               raffleData |-> NoData]

IdleInit == [pc |-> "idle", activities |-> <<>>, awaiting |-> 0]

IdleCreate == [pc |-> "idle", activityId |-> 0, lines |-> <<>>, prizes |-> <<>>,
               drawTime |-> 0, checkedAt |-> 0]

IdleDelete == [pc |-> "idle", activityId |-> 0]

NoPrize == [id |-> 0, none |-> FALSE]

IdleLottery == [pc |-> "idle", userId |-> 0, prizes |-> <<>>, entries |-> <<>>,
                count |-> 0, prize |-> NoPrize, result |-> "none"]

\* the lottery has no pool and no lottery.draw has been sent
NoLottery ==
  /\ storage = "database"
  /\ lottery_prize = <<>>
  /\ user_lottery_draws = <<>>
  /\ lotteries = [l \in LotteryIds |-> IdleLottery]

\* the lowest execution slot not used yet
FreeDraws == {d \in DrawIds : draws[d].pc = "idle"}
NewDraw == CHOOSE d \in FreeDraws : \A e \in FreeDraws : d <= e

\* ----- initial state: the plugin has started on an empty database ---------
Init ==
  /\ now = 0
  /\ raffle_activity = [a \in Activities |-> NoActivity]
  /\ raffle_prize = [a \in Activities |-> <<>>]
  /\ raffle_participant = [a \in Activities |-> <<>>]
  /\ raffle_winner = [a \in Activities |-> <<>>]
  /\ timers = <<>>
  /\ timeouts = {}
  /\ draws = [d \in DrawIds |-> IdleDraw]
  /\ joins = [j \in JoinIds |-> IdleJoin]
  /\ cancels = [c \in CancelIds |-> IdleCancel]
  /\ init = IdleInit
  /\ creates = IdleCreate
  /\ deletes = IdleDelete
  /\ NoLottery
  /\ restarts = 0
  /\ faults = 0

\* ----- the clock -----------------------------------------------------------
Tick ==
  /\ now < MaxTime
  /\ now' = now + 1
  /\ UNCHANGED <<storeVars, timerVars, taskVars, restarts, faults, creates, deletes, lotteryVars>>

\* ----- RaffleTimerManager: the timer map and the event loop's timeouts ------
TimerState == [timers |-> timers, timeouts |-> timeouts]

SetTimerState(ts) ==
  /\ timers' = ts.timers
  /\ timeouts' = ts.timeouts

\* the handle setTimeout returns: a new one, which no timeout that is live or
\* is being replaced has
NewHandle(live) == CHOOSE h \in 1..(Cardinality(live) + 1) : \A t \in live : t.h # h

\* a variant of cancelTimer that forgets clearTimeout
cancelTimerKeepsTimeout(ts, a) ==
  [ts EXCEPT !.timers = [x \in (DOMAIN ts.timers) \ {a} |-> ts.timers[x]]]

\* cancelTimer: clearTimeout of the id's handle and removal from the map;
\* nothing when the id has no timer
cancelTimer(ts, a) ==
  IF a \in DOMAIN ts.timers
    THEN [ts EXCEPT !.timeouts = {t \in ts.timeouts : t.h # ts.timers[a]},
                    !.timers = [x \in (DOMAIN ts.timers) \ {a} |-> ts.timers[x]]]
    ELSE ts

\* a variant of clearAllTimers that only empties the map
clearAllTimersKeepsTimeouts(ts) == [ts EXCEPT !.timers = <<>>]

\* clearAllTimers: clearTimeout of every handle of the map, then timers.clear()
clearAllTimers(ts) ==
  [ts EXCEPT !.timeouts = {t \in ts.timeouts : t.h \notin Range(ts.timers)},
             !.timers = <<>>]

\* setTimeout(callback, delay) of the runtime: a delay above 2^31 - 1 ms is set
\* to 1 ms, which is due within the current step of the clock
TimeoutMaxMs == 2147483647
TickMs == 1073741824

TimeoutDelay(delay) == IF delay > TimeoutMaxMs \div TickMs THEN 0 ELSE delay

\* a variant of the delay > 0 branch that does not cancel the id's timer first
setTimerStacking(ts, a, drawTime) ==
  LET h == NewHandle(ts.timeouts)
  IN [timers |-> [x \in (DOMAIN ts.timers) \cup {a} |-> IF x = a THEN h ELSE ts.timers[x]],
      timeouts |-> ts.timeouts \cup {[h |-> h, activityId |-> a,
                                       at |-> now + TimeoutDelay(drawTime - now)]}]

\* scheduleRaffleDraw, delay > 0: replace the id's timer by a new timeout with
\* the delay drawTime - now
setTimer(ts, a, drawTime) ==
  LET c == cancelTimer(ts, a)
      h == NewHandle(ts.timeouts)
  IN [timers |-> [x \in (DOMAIN c.timers) \cup {a} |-> IF x = a THEN h ELSE c.timers[x]],
      timeouts |-> c.timeouts \cup {[h |-> h, activityId |-> a,
                                      at |-> now + TimeoutDelay(drawTime - now)]}]

\* a call of performRaffleDraw(a): the execution runs up to its first await
StartDraw(a) == [draws EXCEPT ![NewDraw] = [IdleDraw EXCEPT !.pc = "perform", !.activityId = a]]

\* scheduleRaffleDraw(guildId, a, drawTime, title)
ScheduleRaffleDraw(a, drawTime) ==
  IF drawTime - now <= 0
    THEN /\ FreeDraws # {}
         /\ draws' = StartDraw(a)
         /\ UNCHANGED timerVars
    ELSE /\ SetTimerState(setTimer(TimerState, a, drawTime))
         /\ UNCHANGED draws

\* the timeout of scheduleRaffleDraw comes due: performRaffleDraw(a) is called and
\* the id leaves the map
TimerFire(t) ==
  /\ t \in timeouts
  /\ now >= t.at
  /\ FreeDraws # {}
  /\ draws' = StartDraw(t.activityId)
  /\ timeouts' = timeouts \ {t}
  /\ timers' = [x \in (DOMAIN timers) \ {t.activityId} |-> timers[x]]
  /\ UNCHANGED <<storeVars, joins, cancels, init, envVars, creates, deletes, lotteryVars>>

TimerFires == \E t \in timeouts : TimerFire(t)

\* ----- creation --------------------------------------------------------------
\* the create command checks that the deadline is in the future;
\* createActivity inserts the row with status pending
CreateActivity(a, drawTime) ==
  /\ raffle_activity[a].status = "absent"
  /\ drawTime > now
  /\ raffle_activity' = [raffle_activity EXCEPT ![a] = Row(a, "pending", drawTime)]
  /\ UNCHANGED <<raffle_prize, raffle_participant, raffle_winner, timerVars, taskVars, envVars, creates, deletes, lotteryVars>>

\* addPrizes inserts the prize lines of the new activity
AddPrizes(a, pz) ==
  /\ raffle_activity[a].status = "pending"
  /\ raffle_prize[a] = <<>>
  /\ raffle_prize' = [raffle_prize EXCEPT ![a] = pz]
  /\ UNCHANGED <<raffle_activity, raffle_participant, raffle_winner, timerVars, taskVars, envVars, creates, deletes, lotteryVars>>

\* raffle.create stores the activity with status active and, when the store has
\* answered, calls scheduleRaffleDraw; time may have passed since the command
\* checked the deadline
Activate(a) ==
  /\ raffle_activity[a].status = "pending"
  /\ raffle_prize[a] # <<>>
  /\ raffle_activity' = [raffle_activity EXCEPT ![a].status = "active"]
  /\ ScheduleRaffleDraw(a, raffle_activity[a].drawTime)
  /\ UNCHANGED <<raffle_prize, raffle_participant, raffle_winner, joins, cancels, init, envVars, creates, deletes, lotteryVars>>

\* ----- raffle.create: the checks of the command -------------------------------
\* the count field of a prize line as the administrator typed it: a string of up
\* to MaxCountChars characters
MaxCountChars == 2

CountChars == {"0", "1", "-", "x"}

CountInputs == UNION {[1..n -> CountChars] : n \in 1..MaxCountChars}

\* the prize lines of the input: the count field of each non-empty line
LineInputs == UNION {[1..n -> CountInputs] : n \in 0..MaxLines}

IsDigit(c) == c \in {"0", "1"}

DigitOf(c) == IF c = "1" THEN 1 ELSE 0

\* the value of the longest prefix of digits of s, after the digits read so far
RECURSIVE DigitsValue(_, _)
DigitsValue(s, acc) ==
  IF s = <<>> \/ ~IsDigit(Head(s)) THEN acc
  ELSE DigitsValue(Tail(s), 10 * acc + DigitOf(Head(s)))

NaN == [nan |-> TRUE, value |-> 0]

\* parseInt(countStr): an optional sign, then the longest prefix of digits; NaN
\* when there is no digit, whatever follows the digits is ignored
parseInt(s) ==
  LET neg == s # <<>> /\ Head(s) = "-"
      body == IF neg THEN Tail(s) ELSE s
  IN IF body = <<>> \/ ~IsDigit(Head(body)) THEN NaN
     ELSE [nan |-> FALSE, value |-> IF neg THEN 0 - DigitsValue(body, 0) ELSE DigitsValue(body, 0)]

\* isNaN(count) || count <= 0
BadCount(count) == count.nan \/ count.value <= 0

\* the parsing of the prize lines stops with an error at a bad count, and an
\* input without lines is refused
PrizesRejected(lines) ==
  \/ \E k \in DOMAIN lines : BadCount(parseInt(lines[k]))
  \/ Len(lines) = 0

\* !drawTime || drawTime <= Date.now()
DeadlineRejected(drawTime) == drawTime = 0 \/ drawTime <= now

\* raffle.create with its inputs collected: a bad prize line or a deadline that
\* is not in the future is answered with an error and the command ends;
\* otherwise the activity is built and the store is called
RaffleCreate(a, drawTime, lines) ==
  /\ creates.pc = "idle"
  /\ raffle_activity[a].status = "absent"
  /\ creates' =
       IF PrizesRejected(lines) \/ DeadlineRejected(drawTime)
         THEN [IdleCreate EXCEPT !.pc = "rejected", !.lines = lines,
                                 !.drawTime = drawTime, !.checkedAt = now]
         ELSE [pc |-> "save", activityId |-> a, lines |-> lines,
               prizes |-> [k \in DOMAIN lines |-> parseInt(lines[k]).value],
               drawTime |-> drawTime, checkedAt |-> now]
  /\ UNCHANGED <<storeVars, timerVars, draws, joins, cancels, init, envVars, deletes, lotteryVars>>

\* the store has answered: the activity is persisted with status active and its
\* prize lines, and scheduleRaffleDraw is called
CreateSave ==
  LET a == creates.activityId IN
  /\ creates.pc = "save"
  /\ raffle_activity' = [raffle_activity EXCEPT ![a] = Row(a, "active", creates.drawTime)]
  /\ raffle_prize' = [raffle_prize EXCEPT ![a] = creates.prizes]
  /\ ScheduleRaffleDraw(a, creates.drawTime)
  /\ creates' = [creates EXCEPT !.pc = "done"]
  /\ UNCHANGED <<raffle_participant, raffle_winner, joins, cancels, init, envVars, deletes, lotteryVars>>

\* ----- the draw ------------------------------------------------------------------
\* performRaffleDraw: activity.status !== 'active' ends the execution
PerformSkips(status) == status # "active"

\* a variant of the check of drawWinners that refuses only a cancelled activity
DrawRefusesCancelled(status) == status = "cancelled"

\* drawWinners: activity.status !== 'active' throws
DrawRefuses(status) == status # "active"

\* a variant of updateActivityStatus that writes the whole row again
updateActivityStatusWholeRow(a, status) ==
  IF raffle_activity[a].status = "absent"
    THEN raffle_activity
    ELSE [raffle_activity EXCEPT ![a] = [NoActivity EXCEPT !.status = status]]

\* updateActivityStatus: database.set on the row of the id; no row, no effect
updateActivityStatus(a, status) ==
  IF raffle_activity[a].status = "absent"
    THEN raffle_activity
    ELSE [raffle_activity EXCEPT ![a].status = status]

\* variants of the loop condition: one pass too many, and no look at the
\* participants that are left
InnerCondInclusive(i, count, n) == i <= count /\ n > 0

InnerCondCountOnly(i, count, n) == i < count

\* the condition of the inner loop of drawWinners
InnerCond(i, count, n) == i < count /\ n > 0

\* a variant of the loops that leaves a prize line after its first winner
RECURSIVE LoopPosOnePerLine(_, _, _, _)
LoopPosOnePerLine(pz, line, i, n) ==
  IF line > Len(pz) THEN [line |-> line, i |-> 0]
  ELSE IF i < 1 /\ InnerCond(i, pz[line], n) THEN [line |-> line, i |-> i]
  ELSE LoopPosOnePerLine(pz, line + 1, 0, n)

\* the next place (prize line, i) at which the loops of drawWinners create a
\* winner, with n participants left; a line beyond the last when the loops end
RECURSIVE LoopPos(_, _, _, _)
LoopPos(pz, line, i, n) ==
  IF line > Len(pz) THEN [line |-> line, i |-> 0]
  ELSE IF InnerCond(i, pz[line], n) THEN [line |-> line, i |-> i]
  ELSE LoopPos(pz, line + 1, 0, n)

AtPos(r, pos) ==
  [r EXCEPT !.line = pos.line, !.i = pos.i,
            !.pc = IF pos.line > Len(r.prizes) THEN "update" ELSE "create"]

\* performRaffleDraw: getActivity returns; a missing or not active activity
\* ends the execution, otherwise drawWinners is called
PerformGet(d) ==
  LET a == draws[d].activityId IN
  /\ draws[d].pc = "perform"
  /\ draws' = [draws EXCEPT ![d] =
       IF raffle_activity[a].status = "absent" \/ PerformSkips(raffle_activity[a].status)
         THEN [@ EXCEPT !.pc = "done"]
         ELSE [@ EXCEPT !.pc = "draw", !.found = Len(raffle_participant[a])]]
  /\ UNCHANGED <<storeVars, timerVars, joins, cancels, init, envVars, creates, deletes, lotteryVars>>

\* drawWinners: getActivity returns; a missing or not active activity throws,
\* otherwise the loops start on a copy of the participants
DrawGet(d) ==
  LET a == draws[d].activityId IN
  /\ draws[d].pc = "draw"
  /\ draws' = [draws EXCEPT ![d] =
       IF raffle_activity[a].status = "absent" \/ DrawRefuses(raffle_activity[a].status)
         THEN [@ EXCEPT !.pc = "catch", !.threw = "refused"]
         ELSE AtPos([@ EXCEPT !.prizes = raffle_prize[a],
                              !.participants = raffle_participant[a],
                              !.availableParticipants = raffle_participant[a]],
                    LoopPos(raffle_prize[a], 1, 0, Len(raffle_participant[a])))]
  /\ UNCHANGED <<storeVars, timerVars, joins, cancels, init, envVars, creates, deletes, lotteryVars>>

\* drawWinners: one pass of the inner loop; the participant at a random index is
\* taken out and the winner row is created
DrawCreate(d, k) ==
  LET r == draws[d]
      a == r.activityId
      rec == [userId |-> r.availableParticipants[k], prizeName |-> r.line, by |-> d]
      rest == RemoveAt(r.availableParticipants, k)
  IN
  /\ r.pc = "create"
  /\ k \in 1..Len(r.availableParticipants)
  /\ raffle_winner' = [raffle_winner EXCEPT ![a] = Append(@, rec)]
  /\ draws' = [draws EXCEPT ![d] =
       AtPos([r EXCEPT !.availableParticipants = rest, !.winners = Append(@, rec)],
             LoopPos(r.prizes, r.line, r.i + 1, Len(rest)))]
  /\ UNCHANGED <<raffle_activity, raffle_prize, raffle_participant, timerVars,
                 joins, cancels, init, envVars, creates, deletes, lotteryVars>>

\* Math.floor(Math.random() * availableParticipants.length): any index
DrawRandom(d) == \E k \in 1..Len(draws[d].availableParticipants) : DrawCreate(d, k)

\* which notice performRaffleDraw sends for the winners drawWinners returned
NoticeFor(winners, found) ==
  IF Len(winners) = 0 \/ found = 0 THEN "empty" ELSE "winners"

\* drawWinners: the status becomes drawn and the winners are returned
DrawUpdate(d) ==
  LET r == draws[d] IN
  /\ r.pc = "update"
  /\ raffle_activity' = updateActivityStatus(r.activityId, "drawn")
  /\ draws' = [draws EXCEPT ![d] = [r EXCEPT !.pc = "notify", !.notice = NoticeFor(r.winners, r.found)]]
  /\ UNCHANGED <<raffle_prize, raffle_participant, raffle_winner, timerVars,
                 joins, cancels, init, envVars, creates, deletes, lotteryVars>>

\* the notice has been sent (or every bot failed, which is only logged)
DrawNotify(d) ==
  /\ draws[d].pc = "notify"
  /\ draws' = [draws EXCEPT ![d].pc = "done"]
  /\ UNCHANGED <<storeVars, timerVars, joins, cancels, init, envVars, creates, deletes, lotteryVars>>

\* a variant in which the failure of the last bot leaves the send function
NotifyFailedThrows(r) == [r EXCEPT !.pc = "catch", !.threw = "failed", !.notice = "undelivered"]

\* sendWinnerNotification / sendNoParticipantsNotification when no bot delivers:
\* the sendMessage of every bot of ctx.bots fails, or there is no bot; each
\* failure is logged inside the loop and the function returns
NotifyFailed(r) == [r EXCEPT !.pc = "done", !.notice = "undelivered"]

\* the notice could not be delivered
DrawNotifyFails(d) ==
  /\ draws[d].pc = "notify"
  /\ draws' = [draws EXCEPT ![d] = NotifyFailed(@)]
  /\ UNCHANGED <<storeVars, timerVars, joins, cancels, init, envVars, creates, deletes, lotteryVars>>

\* the catch of performRaffleDraw: the status is set to drawn whatever it is
DrawCatch(d) ==
  /\ draws[d].pc = "catch"
  /\ raffle_activity' = updateActivityStatus(draws[d].activityId, "drawn")
  /\ draws' = [draws EXCEPT ![d].pc = "done"]
  /\ UNCHANGED <<raffle_prize, raffle_participant, raffle_winner, timerVars,
                 joins, cancels, init, envVars, creates, deletes, lotteryVars>>

\* a database call of the draw fails, as long as fewer than limit calls have
\* failed: inside the try it throws into the catch, inside the catch it is
\* logged and the execution ends
DrawFails(d, limit) ==
  /\ faults < limit
  /\ draws[d].pc \in {"perform", "draw", "create", "update", "catch"}
  /\ draws' = [draws EXCEPT ![d] =
       IF @.pc = "catch" THEN [@ EXCEPT !.pc = "done"]
                         ELSE [@ EXCEPT !.pc = "catch", !.threw = "failed"]]
  /\ faults' = faults + 1
  /\ UNCHANGED <<storeVars, timerVars, joins, cancels, init, now, restarts, creates, deletes, lotteryVars>>

DrawFault(d) == DrawFails(d, MaxFaults)

\* ----- joining by keyword ----------------------------------------------------------
FreeJoins == {j \in JoinIds : joins[j].pc = "idle"}
NewJoin == CHOOSE j \in FreeJoins : \A e \in FreeJoins : j <= e

\* getGuildActivities(guildId, 'active'): the activities the query returns
Listed(status) == status = "active"

\* a group message with the keyword of activity a has arrived from user u and
\* getGuildActivities(guildId, 'active') returns; an activity that is not in
\* the list matches nothing and the message is ignored
JoinList(u, a) ==
  /\ FreeJoins # {}
  /\ joins' = [joins EXCEPT ![NewJoin] =
       IF Listed(raffle_activity[a].status)
         THEN [IdleJoin EXCEPT !.pc = "has", !.activityId = a, !.userId = u]
         ELSE [IdleJoin EXCEPT !.pc = "done", !.activityId = a, !.userId = u,
                               !.result = "ActivityNotOpen"]]
  /\ UNCHANGED <<storeVars, timerVars, draws, cancels, init, envVars, creates, deletes, lotteryVars>>

\* the rows of a user in an activity (database.get by activityId and userId)
RowsOf(a, u) == {k \in DOMAIN raffle_participant[a] : raffle_participant[a][k] = u}

\* hasUserJoined returns; a user who joined already is passed over silently
JoinHas(j) ==
  /\ joins[j].pc = "has"
  /\ joins' = [joins EXCEPT ![j] =
       IF RowsOf(@.activityId, @.userId) # {}
         THEN [@ EXCEPT !.pc = "done", !.result = "AlreadyJoined"]
         ELSE [@ EXCEPT !.pc = "get"]]
  /\ UNCHANGED <<storeVars, timerVars, draws, cancels, init, envVars, creates, deletes, lotteryVars>>

\* addParticipant: the read of the existing rows returns; it returns false when
\* there is one, otherwise it creates the row
JoinGet(j) ==
  /\ joins[j].pc = "get"
  /\ joins' = [joins EXCEPT ![j] =
       IF RowsOf(@.activityId, @.userId) # {}
         THEN [@ EXCEPT !.pc = "done", !.result = "AlreadyJoined"]
         ELSE [@ EXCEPT !.pc = "create"]]
  /\ UNCHANGED <<storeVars, timerVars, draws, cancels, init, envVars, creates, deletes, lotteryVars>>

\* a variant of the last step of addParticipant that returns false after it
\* has created the row
JoinCreateReturnsFalse(j) ==
  /\ joins[j].pc = "create"
  /\ raffle_participant' = [raffle_participant EXCEPT ![joins[j].activityId] = Append(@, joins[j].userId)]
  /\ joins' = [joins EXCEPT ![j] = [@ EXCEPT !.pc = "done", !.result = "AlreadyJoined"]]
  /\ UNCHANGED <<raffle_activity, raffle_prize, raffle_winner, timerVars, draws, cancels, init, envVars, creates, deletes, lotteryVars>>

\* addParticipant: the row is created and true is returned
JoinCreate(j) ==
  /\ joins[j].pc = "create"
  /\ raffle_participant' = [raffle_participant EXCEPT ![joins[j].activityId] = Append(@, joins[j].userId)]
  /\ joins' = [joins EXCEPT ![j] = [@ EXCEPT !.pc = "done", !.result = "Joined"]]
  /\ UNCHANGED <<raffle_activity, raffle_prize, raffle_winner, timerVars, draws, cancels, init, envVars, creates, deletes, lotteryVars>>

\* ----- raffle.cancel ------------------------------------------------------------------
\* a command slot is free again when its command has ended
FreeCancels == {c \in CancelIds : cancels[c].pc \in {"idle", "done", "killed"}}
NewCancel == CHOOSE c \in FreeCancels : \A e \in FreeCancels : c <= e

\* a variant of the check that refuses only a drawn activity
CancelRefusesDrawn(status) == status = "drawn"

\* raffle.cancel: activity.status !== 'active' is answered with an error
CancelRefuses(status) == status # "active"

\* the administrator has sent raffle.cancel <a> and the load returns: an unknown
\* id and a status other than active are answered with an error message;
\* otherwise the timer is cancelled and the write of the status is issued
CancelLoad(a) ==
  LET c == NewCancel
      new == [IdleCancel EXCEPT !.activityId = a] IN
  /\ FreeCancels # {}
  /\ IF raffle_activity[a].status = "absent"
       THEN /\ cancels' = [cancels EXCEPT ![c] = [new EXCEPT !.pc = "done", !.result = "NotFound"]]
            /\ UNCHANGED timerVars
       ELSE IF CancelRefuses(raffle_activity[a].status)
         THEN /\ cancels' = [cancels EXCEPT ![c] = [new EXCEPT !.pc = "done", !.result = "Conflict"]]
              /\ UNCHANGED timerVars
         ELSE /\ cancels' = [cancels EXCEPT ![c] = [new EXCEPT !.pc = "save"]]
              /\ SetTimerState(cancelTimer(TimerState, a))
  /\ UNCHANGED <<storeVars, draws, joins, init, envVars, creates, deletes, lotteryVars>>

\* cancelActivity: the status cancelled is written and the command confirms
CancelSave(c) ==
  /\ cancels[c].pc = "save"
  /\ raffle_activity' = updateActivityStatus(cancels[c].activityId, "cancelled")
  /\ cancels' = [cancels EXCEPT ![c] = [@ EXCEPT !.pc = "done", !.result = "Ok", !.savedAt = now]]
  /\ UNCHANGED <<raffle_prize, raffle_participant, raffle_winner, timerVars, draws, joins, init, envVars, creates, deletes, lotteryVars>>

\* ----- start-up: initializeRaffleTimers ---------------------------------------------
RECURSIVE SortedSeq(_)
SortedSeq(S) ==
  IF S = {} THEN <<>>
  ELSE LET m == CHOOSE x \in S : \A y \in S : x <= y IN <<m>> \o SortedSeq(S \ {m})

\* a variant of the start-up query that asks for the pending activities
PendingActivities == SortedSeq({a \in Activities : raffle_activity[a].status = "pending"})

\* database.get('raffle_activity', { status: 'active' })
ActiveActivities == SortedSeq({a \in Activities : raffle_activity[a].status = "active"})

\* the first activity of the list whose deadline has passed (delay <= 0)
FirstOverdue(acts) ==
  IF \E k \in DOMAIN acts : raffle_activity[acts[k]].drawTime - now <= 0
    THEN CHOOSE k \in DOMAIN acts :
           /\ raffle_activity[acts[k]].drawTime - now <= 0
           /\ \A m \in 1..(k - 1) : raffle_activity[acts[m]].drawTime - now > 0
    ELSE Len(acts) + 1

RECURSIVE SetTimers(_, _)
SetTimers(ts, acts) ==
  IF acts = <<>> THEN ts
  ELSE SetTimers(setTimer(ts, Head(acts), raffle_activity[Head(acts)].drawTime), Tail(acts))

\* the loop of initializeRaffleTimers from the head of acts up to its next await:
\* every activity with delay > 0 gets its timer, the first overdue one is drawn
\* and awaited
InitLoop(ts, acts) ==
  LET k == FirstOverdue(acts) IN
  /\ SetTimerState(SetTimers(ts, SubSeq(acts, 1, k - 1)))
  /\ IF k <= Len(acts)
       THEN /\ FreeDraws # {}
            /\ draws' = StartDraw(acts[k])
            /\ init' = [pc |-> "await", activities |-> SubSeq(acts, k + 1, Len(acts)), awaiting |-> NewDraw]
       ELSE /\ init' = IdleInit
            /\ UNCHANGED draws

\* the query of the active activities returns
InitQuery ==
  /\ init.pc = "query"
  /\ InitLoop(TimerState, ActiveActivities)
  /\ UNCHANGED <<storeVars, joins, cancels, envVars, creates, deletes, lotteryVars>>

\* the awaited performRaffleDraw has ended
InitResume ==
  /\ init.pc = "await"
  /\ draws[init.awaiting].pc = "done"
  /\ InitLoop(TimerState, init.activities)
  /\ UNCHANGED <<storeVars, joins, cancels, envVars, creates, deletes, lotteryVars>>

\* an execution in flight dies with the process; its locals are gone
Killed(r, idle) == IF r.pc \in {"idle", "done"} THEN r ELSE [idle EXCEPT !.pc = "killed"]

\* the process dies and starts again: executions in flight and timers are
\* gone, the database stays, apply() calls initializeRaffleTimers
Crash ==
  /\ restarts < MaxRestarts
  /\ restarts' = restarts + 1
  /\ draws' = [d \in DrawIds |-> Killed(draws[d], IdleDraw)]
  /\ joins' = [j \in JoinIds |-> Killed(joins[j], IdleJoin)]
  /\ cancels' = [c \in CancelIds |-> Killed(cancels[c], IdleCancel)]
  /\ timers' = <<>>
  /\ timeouts' = {}
  /\ init' = [IdleInit EXCEPT !.pc = "query"]
  /\ creates' = Killed(creates, IdleCreate)
  /\ deletes' = Killed(deletes, IdleDelete)
  /\ lotteries' = [l \in LotteryIds |-> Killed(lotteries[l], IdleLottery)]
  /\ UNCHANGED <<storeVars, now, faults, storage, lottery_prize, user_lottery_draws>>

\* the plugin is reloaded: the dispose hook clears the timers, executions in
\* flight go on, apply() calls initializeRaffleTimers
Reload ==
  /\ restarts < MaxRestarts
  /\ init.pc = "idle"
  /\ restarts' = restarts + 1
  /\ SetTimerState(clearAllTimers(TimerState))
  /\ init' = [IdleInit EXCEPT !.pc = "query"]
  /\ UNCHANGED <<storeVars, draws, joins, cancels, now, faults, creates, deletes, lotteryVars>>

\* ----- the system ------------------------------------------------------------------------
Next ==
  \/ Tick
  \/ \E a \in CreateIds, t \in Times : CreateActivity(a, t)
  \/ \E a \in CreateIds, pz \in PrizeLists : AddPrizes(a, pz)
  \/ \E a \in CreateIds : Activate(a)
  \/ TimerFires
  \/ \E d \in DrawIds : PerformGet(d)
  \/ \E d \in DrawIds : DrawGet(d)
  \/ \E d \in DrawIds : DrawRandom(d)
  \/ \E d \in DrawIds : DrawUpdate(d)
  \/ \E d \in DrawIds : DrawNotify(d)
  \/ \E d \in DrawIds : DrawCatch(d)
  \/ \E d \in DrawIds : DrawFault(d)
  \/ \E u \in Users, a \in CreateIds : JoinList(u, a)
  \/ \E j \in JoinIds : JoinHas(j)
  \/ \E j \in JoinIds : JoinGet(j)
  \/ \E j \in JoinIds : JoinCreate(j)
  \/ \E a \in CreateIds : CancelLoad(a)
  \/ \E c \in CancelIds : CancelSave(c)
  \/ InitQuery
  \/ InitResume
  \/ Crash
  \/ Reload

Spec == Init /\ [][Next]_vars

\* ----- the allocation alone: a draw that has just been started on an active
\* ----- activity with its prize lines and participants -----------------------------------
AllocMaxParticipants == 5
AllocMaxLines == 2
AllocMaxCount == 2

AllocPrizeLists == UNION {[1..n -> 1..AllocMaxCount] : n \in 1..AllocMaxLines}

InitAlloc ==
  /\ now = 1
  /\ \E pz \in AllocPrizeLists, n \in 0..AllocMaxParticipants :
       /\ raffle_prize = [a \in Activities |-> IF a = 1 THEN pz ELSE <<>>]
       /\ raffle_participant = [a \in Activities |-> IF a = 1 THEN [k \in 1..n |-> k] ELSE <<>>]
  /\ raffle_activity = [a \in Activities |->
       IF a = 1 THEN Row(a, "active", 1) ELSE NoActivity]
  /\ raffle_winner = [a \in Activities |-> <<>>]
  /\ timers = <<>>
  /\ timeouts = {}
  /\ draws = [d \in DrawIds |->
       IF d = 1 THEN [IdleDraw EXCEPT !.pc = "perform", !.activityId = 1] ELSE IdleDraw]
  /\ joins = [j \in JoinIds |-> IdleJoin]
  /\ cancels = [c \in CancelIds |-> IdleCancel]
  /\ init = IdleInit
  /\ creates = IdleCreate
  /\ deletes = IdleDelete
  /\ NoLottery
  /\ restarts = 0
  /\ faults = 0

NextAlloc ==
  \/ \E d \in DrawIds : PerformGet(d)
  \/ \E d \in DrawIds : DrawGet(d)
  \/ \E d \in DrawIds : DrawRandom(d)
  \/ \E d \in DrawIds : DrawUpdate(d)
  \/ \E d \in DrawIds : DrawNotify(d)

SpecAlloc == InitAlloc /\ [][NextAlloc]_vars

\* ----- the create command alone, for every input -------------------------------------
NextCreate ==
  \/ Tick
  \/ \E a \in CreateIds, t \in Times, lines \in LineInputs : RaffleCreate(a, t, lines)
  \/ CreateSave

SpecCreate == Init /\ [][NextCreate]_vars

\* ----- the timer manager under any sequence of calls, on a store whose
\* ----- activities are active and have a participant; the executions of
\* ----- performRaffleDraw it starts stay at their first await ------------------------
InitTimer ==
  /\ now = 0
  /\ \E t \in [Activities -> Times] :
       raffle_activity = [a \in Activities |-> Row(a, "active", t[a])]
  /\ raffle_prize = [a \in Activities |-> <<1>>]
  /\ raffle_participant = [a \in Activities |-> <<1>>]
  /\ raffle_winner = [a \in Activities |-> <<>>]
  /\ timers = <<>>
  /\ timeouts = {}
  /\ draws = [d \in DrawIds |-> IdleDraw]
  /\ joins = [j \in JoinIds |-> IdleJoin]
  /\ cancels = [c \in CancelIds |-> IdleCancel]
  /\ init = IdleInit
  /\ creates = IdleCreate
  /\ deletes = IdleDelete
  /\ NoLottery
  /\ restarts = 0
  /\ faults = 0

\* a call of scheduleRaffleDraw(guildId, a, drawTime, title)
ScheduleCall(a, drawTime) ==
  /\ ScheduleRaffleDraw(a, drawTime)
  /\ UNCHANGED <<storeVars, joins, cancels, init, envVars, creates, deletes, lotteryVars>>

\* a call of cancelTimer(guildId, a)
CancelTimerCall(a) ==
  /\ SetTimerState(cancelTimer(TimerState, a))
  /\ UNCHANGED <<storeVars, draws, joins, cancels, init, envVars, creates, deletes, lotteryVars>>

NextTimer ==
  \/ Tick
  \/ \E a \in Activities, t \in Times : ScheduleCall(a, t)
  \/ \E a \in Activities : CancelTimerCall(a)
  \/ TimerFires

SpecTimer == InitTimer /\ [][NextTimer]_vars

\* ----- a process start on a store that holds activities of every status, none
\* ----- of them with a participant ----------------------------------------------------
InitStart ==
  /\ now = 0
  /\ \E st \in [Activities -> Statuses], t \in [Activities -> Times] :
       raffle_activity = [a \in Activities |-> Row(a, st[a], t[a])]
  /\ raffle_prize = [a \in Activities |-> <<1>>]
  /\ raffle_participant = [a \in Activities |-> <<>>]
  /\ raffle_winner = [a \in Activities |-> <<>>]
  /\ timers = <<>>
  /\ timeouts = {}
  /\ draws = [d \in DrawIds |-> IdleDraw]
  /\ joins = [j \in JoinIds |-> IdleJoin]
  /\ cancels = [c \in CancelIds |-> IdleCancel]
  /\ init = [IdleInit EXCEPT !.pc = "query"]
  /\ creates = IdleCreate
  /\ deletes = IdleDelete
  /\ NoLottery
  /\ restarts = 0
  /\ faults = 0

NextStart ==
  \/ Tick
  \/ InitQuery
  \/ InitResume
  \/ TimerFires
  \/ \E a \in Activities : Activate(a)
  \/ \E d \in DrawIds : PerformGet(d)
  \/ \E d \in DrawIds : DrawGet(d)
  \/ \E d \in DrawIds : DrawUpdate(d)
  \/ \E d \in DrawIds : DrawNotify(d)
  \/ \E d \in DrawIds : DrawCatch(d)
  \/ \E a \in Activities : CancelLoad(a)
  \/ \E c \in CancelIds : CancelSave(c)

SpecStart == InitStart /\ [][NextStart]_vars

\* ----- the store (RaffleHandler) under any sequence of calls of its methods,
\* ----- on a database that holds active activities without participants, their
\* ----- deadline ahead ---------------------------------------------------------------
MaxMessages == 1
MaxStoreDraws == 1
MaxStoreJoins == 1
MessageIds == 1..MaxMessages
\* what every call of the store leaves alone
nonStoreVars == <<timerVars, cancels, init, creates, now, restarts, lotteryVars>>

\* updateActivityStatus(a, status) is called and the database answers
StatusCall(a, status) ==
  /\ raffle_activity' = updateActivityStatus(a, status)
  /\ UNCHANGED <<raffle_prize, raffle_participant, raffle_winner, draws, joins,
                 deletes, faults, nonStoreVars>>

\* cancelActivity: updateActivityStatus(a, 'cancelled')
cancelActivity(a) == updateActivityStatus(a, "cancelled")

CancelActivityCall(a) ==
  /\ raffle_activity' = cancelActivity(a)
  /\ UNCHANGED <<raffle_prize, raffle_participant, raffle_winner, draws, joins,
                 deletes, faults, nonStoreVars>>

\* updateAnnounceMessageId: database.set on the row of the id; no row, no effect
updateAnnounceMessageId(a, messageId) ==
  IF raffle_activity[a].status = "absent"
    THEN raffle_activity
    ELSE [raffle_activity EXCEPT ![a].announceMessageId = messageId]

AnnounceCall(a, messageId) ==
  /\ raffle_activity' = updateAnnounceMessageId(a, messageId)
  /\ UNCHANGED <<raffle_prize, raffle_participant, raffle_winner, draws, joins,
                 deletes, faults, nonStoreVars>>

\* addParticipant(a, u, username) is called: the execution runs up to the read
\* of the existing rows; the id is not looked up in raffle_activity
AddParticipantCall(a, u) ==
  /\ FreeJoins # {}
  /\ Cardinality(JoinIds \ FreeJoins) < MaxStoreJoins
  /\ joins' = [joins EXCEPT ![NewJoin] =
       [IdleJoin EXCEPT !.pc = "get", !.activityId = a, !.userId = u]]
  /\ UNCHANGED <<storeVars, draws, deletes, faults, nonStoreVars>>

\* performRaffleDraw(a) is called, as the callback of a timeout calls it
PerformCall(a) ==
  /\ FreeDraws # {}
  /\ Cardinality(DrawIds \ FreeDraws) < MaxStoreDraws
  /\ draws' = StartDraw(a)
  /\ UNCHANGED <<storeVars, joins, deletes, faults, nonStoreVars>>

\* deleteActivity(a) is called: the execution runs up to the first remove
DeleteCall(a) ==
  /\ deletes.pc \in {"idle", "done", "failed"}
  /\ deletes' = [pc |-> "participant", activityId |-> a]
  /\ UNCHANGED <<storeVars, draws, joins, faults, nonStoreVars>>

\* deleteActivity: the rows of the id are removed from raffle_participant
DeleteParticipants ==
  /\ deletes.pc = "participant"
  /\ raffle_participant' = [raffle_participant EXCEPT ![deletes.activityId] = <<>>]
  /\ deletes' = [deletes EXCEPT !.pc = "prize"]
  /\ UNCHANGED <<raffle_activity, raffle_prize, raffle_winner, draws, joins,
                 faults, nonStoreVars>>

\* deleteActivity: the rows of the id are removed from raffle_prize
DeletePrizes ==
  /\ deletes.pc = "prize"
  /\ raffle_prize' = [raffle_prize EXCEPT ![deletes.activityId] = <<>>]
  /\ deletes' = [deletes EXCEPT !.pc = "winner"]
  /\ UNCHANGED <<raffle_activity, raffle_participant, raffle_winner, draws, joins,
                 faults, nonStoreVars>>

\* deleteActivity: the rows of the id are removed from raffle_winner
DeleteWinners ==
  /\ deletes.pc = "winner"
  /\ raffle_winner' = [raffle_winner EXCEPT ![deletes.activityId] = <<>>]
  /\ deletes' = [deletes EXCEPT !.pc = "activity"]
  /\ UNCHANGED <<raffle_activity, raffle_prize, raffle_participant, draws, joins,
                 faults, nonStoreVars>>

\* deleteActivity: the row of the id is removed from raffle_activity
DeleteRow ==
  /\ deletes.pc = "activity"
  /\ raffle_activity' = [raffle_activity EXCEPT ![deletes.activityId] = NoActivity]
  /\ deletes' = [deletes EXCEPT !.pc = "done"]
  /\ UNCHANGED <<raffle_prize, raffle_participant, raffle_winner, draws, joins,
                 faults, nonStoreVars>>

\* a remove of deleteActivity fails: the rejection leaves deleteActivity, the
\* removes after it are not issued
DeleteFault ==
  /\ faults < MaxFaults
  /\ deletes.pc \in {"participant", "prize", "winner", "activity"}
  /\ deletes' = [deletes EXCEPT !.pc = "failed"]
  /\ faults' = faults + 1
  /\ UNCHANGED <<storeVars, draws, joins, nonStoreVars>>

InitStore ==
  /\ now = 0
  /\ \E S \in SUBSET Activities :
       raffle_activity = [a \in Activities |->
         IF a \in S THEN Row(a, "active", MaxTime) ELSE NoActivity]
  /\ raffle_prize = [a \in Activities |->
       IF raffle_activity[a].status = "absent" THEN <<>> ELSE <<1>>]
  /\ raffle_participant = [a \in Activities |-> <<>>]
  /\ raffle_winner = [a \in Activities |-> <<>>]
  /\ timers = <<>>
  /\ timeouts = {}
  /\ draws = [d \in DrawIds |-> IdleDraw]
  /\ joins = [j \in JoinIds |-> IdleJoin]
  /\ cancels = [c \in CancelIds |-> IdleCancel]
  /\ init = IdleInit
  /\ creates = IdleCreate
  /\ deletes = IdleDelete
  /\ NoLottery
  /\ restarts = 0
  /\ faults = 0

NextStore ==
  \/ \E a \in Activities, status \in Statuses : StatusCall(a, status)
  \/ \E a \in Activities : CancelActivityCall(a)
  \/ \E a \in Activities, m \in MessageIds : AnnounceCall(a, m)
  \/ \E a \in Activities, u \in Users : AddParticipantCall(a, u)
  \/ \E j \in JoinIds : JoinGet(j)
  \/ \E j \in JoinIds : JoinCreate(j)
  \/ \E a \in Activities : PerformCall(a)
  \/ \E d \in DrawIds : PerformGet(d)
  \/ \E d \in DrawIds : DrawGet(d)
  \/ \E d \in DrawIds : DrawRandom(d)
  \/ \E d \in DrawIds : DrawUpdate(d)
  \/ \E d \in DrawIds : DrawNotify(d)
  \/ \E d \in DrawIds : DrawCatch(d)
  \/ \E a \in Activities : DeleteCall(a)
  \/ DeleteParticipants
  \/ DeletePrizes
  \/ DeleteWinners
  \/ DeleteRow
  \/ DeleteFault

SpecStore == InitStore /\ [][NextStore]_vars

\* ----- the draws the timers start, on a database whose calls can fail more
\* ----- than once: active activities with a participant, their timers armed ---------
MaxDrawFaults == 2

InitFault ==
  /\ now = 0
  /\ raffle_activity = [a \in Activities |-> Row(a, "active", MaxTime)]
  /\ raffle_prize = [a \in Activities |-> <<1>>]
  /\ raffle_participant = [a \in Activities |-> <<1>>]
  /\ raffle_winner = [a \in Activities |-> <<>>]
  /\ timers = [a \in Activities |-> a]
  /\ timeouts = {[h |-> a, activityId |-> a, at |-> MaxTime] : a \in Activities}
  /\ draws = [d \in DrawIds |-> IdleDraw]
  /\ joins = [j \in JoinIds |-> IdleJoin]
  /\ cancels = [c \in CancelIds |-> IdleCancel]
  /\ init = IdleInit
  /\ creates = IdleCreate
  /\ deletes = IdleDelete
  /\ NoLottery
  /\ restarts = 0
  /\ faults = 0

NextFault ==
  \/ Tick
  \/ TimerFires
  \/ \E d \in DrawIds : PerformGet(d)
  \/ \E d \in DrawIds : DrawGet(d)
  \/ \E d \in DrawIds : DrawRandom(d)
  \/ \E d \in DrawIds : DrawUpdate(d)
  \/ \E d \in DrawIds : DrawNotify(d)
  \/ \E d \in DrawIds : DrawCatch(d)
  \/ \E d \in DrawIds : DrawFails(d, MaxDrawFaults)

SpecFault == InitFault /\ [][NextFault]_vars

\* ----- a process start on a store of active activities whose deadlines lie up
\* ----- to MaxDeadline steps of the clock ahead ------------------------------------
MaxDeadline == 2

InitDeadline ==
  /\ now = 0
  /\ \E t \in [Activities -> 0..MaxDeadline] :
       raffle_activity = [a \in Activities |-> Row(a, "active", t[a])]
  /\ raffle_prize = [a \in Activities |-> <<1>>]
  /\ raffle_participant = [a \in Activities |-> <<1>>]
  /\ raffle_winner = [a \in Activities |-> <<>>]
  /\ timers = <<>>
  /\ timeouts = {}
  /\ draws = [d \in DrawIds |-> IdleDraw]
  /\ joins = [j \in JoinIds |-> IdleJoin]
  /\ cancels = [c \in CancelIds |-> IdleCancel]
  /\ init = [IdleInit EXCEPT !.pc = "query"]
  /\ creates = IdleCreate
  /\ deletes = IdleDelete
  /\ NoLottery
  /\ restarts = 0
  /\ faults = 0

NextDeadline ==
  \/ Tick
  \/ InitQuery
  \/ InitResume
  \/ TimerFires
  \/ \E d \in DrawIds : PerformGet(d)
  \/ \E d \in DrawIds : DrawGet(d)
  \/ \E d \in DrawIds : DrawRandom(d)
  \/ \E d \in DrawIds : DrawUpdate(d)
  \/ \E d \in DrawIds : DrawNotify(d)

SpecDeadline == InitDeadline /\ [][NextDeadline]_vars

\* ----- shutdown: the dispose hook of the plugin, and the next apply() ---------------
\* ctx.on('dispose'): clearAllTimers; the plugin's commands and listeners are
\* gone until apply() runs again, executions in flight go on
Dispose ==
  /\ restarts < MaxRestarts
  /\ init.pc = "idle"
  /\ restarts' = restarts + 1
  /\ SetTimerState(clearAllTimers(TimerState))
  /\ init' = [IdleInit EXCEPT !.pc = "disposed"]
  /\ UNCHANGED <<storeVars, draws, joins, cancels, now, faults, creates, deletes, lotteryVars>>

\* apply() runs again and calls initializeRaffleTimers, which clears the
\* timers and issues its query
Apply ==
  /\ init.pc = "disposed"
  /\ SetTimerState(clearAllTimers(TimerState))
  /\ init' = [IdleInit EXCEPT !.pc = "query"]
  /\ UNCHANGED <<storeVars, draws, joins, cancels, envVars, creates, deletes, lotteryVars>>

\* active activities with their timers set, deadlines at any time
InitDispose ==
  /\ now = 0
  /\ \E t \in [Activities -> Times] :
       /\ raffle_activity = [a \in Activities |-> Row(a, "active", t[a])]
       /\ timeouts = {[h |-> a, activityId |-> a, at |-> t[a]] : a \in Activities}
  /\ raffle_prize = [a \in Activities |-> <<1>>]
  /\ raffle_participant = [a \in Activities |-> <<1>>]
  /\ raffle_winner = [a \in Activities |-> <<>>]
  /\ timers = [a \in Activities |-> a]
  /\ draws = [d \in DrawIds |-> IdleDraw]
  /\ joins = [j \in JoinIds |-> IdleJoin]
  /\ cancels = [c \in CancelIds |-> IdleCancel]
  /\ init = IdleInit
  /\ creates = IdleCreate
  /\ deletes = IdleDelete
  /\ NoLottery
  /\ restarts = 0
  /\ faults = 0

NextDispose ==
  \/ Tick
  \/ TimerFires
  \/ Dispose
  \/ Apply
  \/ InitQuery
  \/ InitResume
  \/ \E d \in DrawIds : PerformGet(d)
  \/ \E d \in DrawIds : DrawGet(d)
  \/ \E d \in DrawIds : DrawRandom(d)
  \/ \E d \in DrawIds : DrawUpdate(d)
  \/ \E d \in DrawIds : DrawNotify(d)

SpecDispose == InitDispose /\ [][NextDispose]_vars

\* ----- initializeRaffleTimers run again after it has completed, on a store that
\* ----- holds activities of every status, each with a prize and a participant ----------
InitRerun ==
  /\ now = 0
  /\ \E st \in [Activities -> Statuses], t \in [Activities -> Times] :
       raffle_activity = [a \in Activities |-> Row(a, st[a], t[a])]
  /\ raffle_prize = [a \in Activities |-> <<1>>]
  /\ raffle_participant = [a \in Activities |-> <<1>>]
  /\ raffle_winner = [a \in Activities |-> <<>>]
  /\ timers = <<>>
  /\ timeouts = {}
  /\ draws = [d \in DrawIds |-> IdleDraw]
  /\ joins = [j \in JoinIds |-> IdleJoin]
  /\ cancels = [c \in CancelIds |-> IdleCancel]
  /\ init = [IdleInit EXCEPT !.pc = "query"]
  /\ creates = IdleCreate
  /\ deletes = IdleDelete
  /\ NoLottery
  /\ restarts = 0
  /\ faults = 0

NextRerun ==
  \/ InitQuery
  \/ InitResume
  \/ Reload
  \/ \E d \in DrawIds : PerformGet(d)
  \/ \E d \in DrawIds : DrawGet(d)
  \/ \E d \in DrawIds : DrawRandom(d)
  \/ \E d \in DrawIds : DrawUpdate(d)
  \/ \E d \in DrawIds : DrawNotify(d)

SpecRerun == InitRerun /\ [][NextRerun]_vars

\* ----- the timer's draw with notices that may fail to be delivered ----------------
InitNotify ==
  /\ now = 0
  /\ \E t \in [Activities -> Times] :
       /\ raffle_activity = [a \in Activities |-> Row(a, "active", t[a])]
       /\ timeouts = {[h |-> a, activityId |-> a, at |-> t[a]] : a \in Activities}
  /\ raffle_prize = [a \in Activities |-> <<1>>]
  /\ \E n \in [Activities -> 0..1] :
       raffle_participant = [a \in Activities |-> [k \in 1..n[a] |-> k]]
  /\ raffle_winner = [a \in Activities |-> <<>>]
  /\ timers = [a \in Activities |-> a]
  /\ draws = [d \in DrawIds |-> IdleDraw]
  /\ joins = [j \in JoinIds |-> IdleJoin]
  /\ cancels = [c \in CancelIds |-> IdleCancel]
  /\ init = IdleInit
  /\ creates = IdleCreate
  /\ deletes = IdleDelete
  /\ NoLottery
  /\ restarts = 0
  /\ faults = 0

NextNotify ==
  \/ Tick
  \/ TimerFires
  \/ \E d \in DrawIds : PerformGet(d)
  \/ \E d \in DrawIds : DrawGet(d)
  \/ \E d \in DrawIds : DrawRandom(d)
  \/ \E d \in DrawIds : DrawUpdate(d)
  \/ \E d \in DrawIds : DrawNotify(d)
  \/ \E d \in DrawIds : DrawNotifyFails(d)
  \/ \E d \in DrawIds : DrawCatch(d)
  \/ \E d \in DrawIds : DrawFault(d)

SpecNotify == InitNotify /\ [][NextNotify]_vars

\* ----- the file-backed version: raffle.join, the keyword join and raffle.cancel on
\* ----- the raffle file -------------------------------------------------------------------
\* loadRaffleData: the whole file is read and parsed
loadRaffleData ==
  [raffle_activity |-> raffle_activity, raffle_prize |-> raffle_prize,
   raffle_participant |-> raffle_participant, raffle_winner |-> raffle_winner]

\* saveRaffleData(raffleData): the whole file is written
saveRaffleData(raffleData) ==
  /\ raffle_activity' = raffleData.raffle_activity
  /\ raffle_prize' = raffleData.raffle_prize
  /\ raffle_participant' = raffleData.raffle_participant
  /\ raffle_winner' = raffleData.raffle_winner

\* raffle.join and the keyword listener: activity.status !== 'active' ends the join
FileJoinRefuses(status) == status # "active"

\* user u joins activity a and loadRaffleData returns: an unknown id, a status
\* other than active and a user who is among the participants end the join;
\* otherwise the user is pushed onto the participants in memory and the save
\* is issued
FileJoinLoad(u, a) ==
  LET raffleData == loadRaffleData
      activity == raffleData.raffle_activity[a]
      new == [IdleJoin EXCEPT !.activityId = a, !.userId = u]
  IN
  /\ FreeJoins # {}
  /\ joins' = [joins EXCEPT ![NewJoin] =
       IF activity.status = "absent"
         THEN [new EXCEPT !.pc = "done", !.result = "NotFound"]
       ELSE IF FileJoinRefuses(activity.status)
         THEN [new EXCEPT !.pc = "done", !.result = "ActivityNotOpen"]
       ELSE IF u \in Range(raffleData.raffle_participant[a])
         THEN [new EXCEPT !.pc = "done", !.result = "AlreadyJoined"]
       ELSE [new EXCEPT !.pc = "save",
                        !.raffleData = [raffleData EXCEPT !.raffle_participant[a] = Append(@, u)]]]
  /\ UNCHANGED <<storeVars, timerVars, draws, cancels, init, envVars, creates, deletes, lotteryVars>>

\* saveRaffleData returns and the join is confirmed to the user
FileJoinSave(j) ==
  /\ joins[j].pc = "save"
  /\ saveRaffleData(joins[j].raffleData)
  /\ joins' = [joins EXCEPT ![j] = [@ EXCEPT !.pc = "done", !.result = "Joined", !.raffleData = NoData]]
  /\ UNCHANGED <<timerVars, draws, cancels, init, envVars, creates, deletes, lotteryVars>>

\* raffle.cancel <a> and loadRaffleData returns: an unknown id and a status other
\* than active are answered with an error; otherwise the timer is cancelled,
\* the status is set in memory and the save is issued
FileCancelLoad(a) ==
  LET raffleData == loadRaffleData
      activity == raffleData.raffle_activity[a]
      c == NewCancel
      new == [IdleCancel EXCEPT !.activityId = a]
  IN
  /\ FreeCancels # {}
  /\ IF activity.status = "absent"
       THEN /\ cancels' = [cancels EXCEPT ![c] = [new EXCEPT !.pc = "done", !.result = "NotFound"]]
            /\ UNCHANGED timerVars
       ELSE IF CancelRefuses(activity.status)
         THEN /\ cancels' = [cancels EXCEPT ![c] = [new EXCEPT !.pc = "done", !.result = "Conflict"]]
              /\ UNCHANGED timerVars
         ELSE /\ cancels' = [cancels EXCEPT ![c] =
                   [new EXCEPT !.pc = "save",
                               !.raffleData = [raffleData EXCEPT !.raffle_activity[a].status = "cancelled"]]]
              /\ SetTimerState(cancelTimer(TimerState, a))
  /\ UNCHANGED <<storeVars, draws, joins, init, envVars, creates, deletes, lotteryVars>>

\* saveRaffleData returns and the cancellation is confirmed
FileCancelSave(c) ==
  /\ cancels[c].pc = "save"
  /\ saveRaffleData(cancels[c].raffleData)
  /\ cancels' = [cancels EXCEPT ![c] =
       [@ EXCEPT !.pc = "done", !.result = "Ok", !.savedAt = now, !.raffleData = NoData]]
  /\ UNCHANGED <<timerVars, draws, joins, init, envVars, creates, deletes, lotteryVars>>

\* the raffle file holds active activities with their timers set
InitFile ==
  /\ now = 0
  /\ raffle_activity = [a \in Activities |-> Row(a, "active", MaxTime)]
  /\ raffle_prize = [a \in Activities |-> <<1>>]
  /\ raffle_participant = [a \in Activities |-> <<>>]
  /\ raffle_winner = [a \in Activities |-> <<>>]
  /\ timers = [a \in Activities |-> a]
  /\ timeouts = {[h |-> a, activityId |-> a, at |-> MaxTime] : a \in Activities}
  /\ draws = [d \in DrawIds |-> IdleDraw]
  /\ joins = [j \in JoinIds |-> IdleJoin]
  /\ cancels = [c \in CancelIds |-> IdleCancel]
  /\ init = IdleInit
  /\ creates = IdleCreate
  /\ deletes = IdleDelete
  /\ NoLottery
  /\ restarts = 0
  /\ faults = 0

NextFile ==
  \/ \E u \in Users, a \in Activities : FileJoinLoad(u, a)
  \/ \E j \in JoinIds : FileJoinSave(j)
  \/ \E a \in Activities : FileCancelLoad(a)
  \/ \E c \in CancelIds : FileCancelSave(c)

SpecFile == InitFile /\ [][NextFile]_vars

\* ----- the lottery: lottery.draw on one pool.  The repository has the command
\* ----- in two versions, one on two JSON files and one on the database; storage
\* ----- says which one runs ---------------------------------------------------------
\* what no lottery command touches
nonLotteryVars == <<storeVars, timerVars, taskVars, envVars, creates, deletes>>

\* the entries a pool can hold: prizes 1..MaxPrizes and tickets whose name and
\* description are both "none"
PrizeOf(k) == [id |-> k, none |-> k > MaxPrizes]

PoolOf(S) == LET ids == SortedSeq(S) IN [k \in DOMAIN ids |-> PrizeOf(ids[k])]

\* a variant of the filter that keeps every entry
nonNonePrizesAll(prizes) == prizes

\* the filter of lottery.draw: the entries that are not "none" tickets
nonNonePrizes(prizes) == SelectSeq(prizes, LAMBDA p : ~p.none)

\* the limit of draws per user and pool: the constant 1 of the file version,
\* the maxDraws lottery.pool.add gives a pool in the database version
maxEntries == 1

\* the rows of a user in the draw counts
EntriesOf(rows, u) == {k \in DOMAIN rows : rows[k].userId = u}

\* userEntries[userId]?.[pool] || 0, getUserDrawCount: the count of the first
\* row of the user, 0 without a row
DrawCount(rows, u) ==
  IF EntriesOf(rows, u) = {} THEN 0
  ELSE rows[CHOOSE k \in EntriesOf(rows, u) : \A x \in EntriesOf(rows, u) : k <= x].drawCount

\* the count is written to the rows of the user (database.set), or to a new
\* entry of the user in the file's object
SetCount(rows, u, n) ==
  IF EntriesOf(rows, u) = {}
    THEN Append(rows, [userId |-> u, drawCount |-> n])
    ELSE [k \in DOMAIN rows |->
           IF rows[k].userId = u THEN [rows[k] EXCEPT !.drawCount = n] ELSE rows[k]]

FreeLotteries == {l \in LotteryIds : lotteries[l].pc = "idle"}
NewLottery == CHOOSE l \in FreeLotteries : \A e \in FreeLotteries : l <= e

\* the answer of the command for the entry it has drawn
Drawn(prize) == IF prize.none THEN "NoWin" ELSE "Won"

\* user u sends lottery.draw <pool>: the command runs up to its first read
LotteryDraw(u) ==
  /\ FreeLotteries # {}
  /\ lotteries' = [lotteries EXCEPT ![NewLottery] =
       [IdleLottery EXCEPT !.pc = "pool", !.userId = u]]
  /\ UNCHANGED <<storage, lottery_prize, user_lottery_draws, nonLotteryVars>>

\* file version: loadLotteryPool returns the content of the pool file
FileLoadPool(l) ==
  /\ storage = "file"
  /\ lotteries[l].pc = "pool"
  /\ lotteries' = [lotteries EXCEPT ![l] = [@ EXCEPT !.pc = "entries", !.prizes = lottery_prize]]
  /\ UNCHANGED <<storage, lottery_prize, user_lottery_draws, nonLotteryVars>>

\* file version: loadUserDrawEntries returns; an empty pool, a pool of "none"
\* tickets only and a user who has drawn are answered with an error; otherwise
\* the entry at a random index is spliced out of the loaded pool and the pool
\* file is written
FileLoadEntries(l, prizeIndex) ==
  LET r == lotteries[l]
      userPoolEntries == DrawCount(user_lottery_draws, r.userId) IN
  /\ storage = "file"
  /\ r.pc = "entries"
  /\ lotteries' = [lotteries EXCEPT ![l] =
       IF Len(r.prizes) = 0 THEN [r EXCEPT !.pc = "done", !.result = "NotFound"]
       ELSE IF Len(nonNonePrizes(r.prizes)) = 0 THEN [r EXCEPT !.pc = "done", !.result = "Ended"]
       ELSE IF userPoolEntries >= maxEntries
         THEN [r EXCEPT !.pc = "done", !.result = "AlreadyDrawn",
                        !.entries = user_lottery_draws, !.count = userPoolEntries]
       ELSE [r EXCEPT !.pc = "savePool", !.entries = user_lottery_draws,
                      !.count = userPoolEntries,
                      !.prize = r.prizes[Min(prizeIndex, Len(r.prizes))],
                      !.prizes = RemoveAt(r.prizes, Min(prizeIndex, Len(r.prizes)))]]
  /\ UNCHANGED <<storage, lottery_prize, user_lottery_draws, nonLotteryVars>>

\* file version: saveLotteryPool has written the loaded pool without the entry
FileSavePool(l) ==
  /\ storage = "file"
  /\ lotteries[l].pc = "savePool"
  /\ lottery_prize' = lotteries[l].prizes
  /\ lotteries' = [lotteries EXCEPT ![l].pc = "saveEntries"]
  /\ UNCHANGED <<storage, user_lottery_draws, nonLotteryVars>>

\* file version: saveUserDrawEntries has written the loaded counts with the
\* user's count raised by one, and the command sends its answer
FileSaveEntries(l) ==
  LET r == lotteries[l] IN
  /\ storage = "file"
  /\ r.pc = "saveEntries"
  /\ user_lottery_draws' = SetCount(r.entries, r.userId, r.count + 1)
  /\ lotteries' = [lotteries EXCEPT ![l] = [r EXCEPT !.pc = "done", !.result = Drawn(r.prize)]]
  /\ UNCHANGED <<storage, lottery_prize, nonLotteryVars>>

\* database version: getPool returns; a pool of "none" tickets only (or
\* without entries) is answered as ended, otherwise the count is read
DbGetPool(l) ==
  /\ storage = "database"
  /\ lotteries[l].pc = "pool"
  /\ lotteries' = [lotteries EXCEPT ![l] =
       IF Len(nonNonePrizes(lottery_prize)) = 0
         THEN [@ EXCEPT !.pc = "done", !.result = "Ended", !.prizes = lottery_prize]
         ELSE [@ EXCEPT !.pc = "count", !.prizes = lottery_prize]]
  /\ UNCHANGED <<storage, lottery_prize, user_lottery_draws, nonLotteryVars>>

\* database version: getUserDrawCount returns; a user at the limit is answered
\* with an error, otherwise handler.draw is called
DbGetCount(l) ==
  LET r == lotteries[l]
      userPoolEntries == DrawCount(user_lottery_draws, r.userId) IN
  /\ storage = "database"
  /\ r.pc = "count"
  /\ lotteries' = [lotteries EXCEPT ![l] =
       IF userPoolEntries >= maxEntries
         THEN [r EXCEPT !.pc = "done", !.result = "AlreadyDrawn", !.count = userPoolEntries]
         ELSE [r EXCEPT !.pc = "drawPool", !.count = userPoolEntries]]
  /\ UNCHANGED <<storage, lottery_prize, user_lottery_draws, nonLotteryVars>>

\* database version, handler.draw: getPool returns the entries of the pool
DbDrawGetPool(l) ==
  /\ storage = "database"
  /\ lotteries[l].pc = "drawPool"
  /\ lotteries' = [lotteries EXCEPT ![l] = [@ EXCEPT !.pc = "drawCount", !.prizes = lottery_prize]]
  /\ UNCHANGED <<storage, lottery_prize, user_lottery_draws, nonLotteryVars>>

\* database version, handler.draw: getUserDrawCount returns; at the limit null
\* is returned, an empty pool throws, otherwise the entry at a random index is
\* selected and incrementUserDrawCount is called
DbDrawGetCount(l, randomIndex) ==
  LET r == lotteries[l]
      currentCount == DrawCount(user_lottery_draws, r.userId) IN
  /\ storage = "database"
  /\ r.pc = "drawCount"
  /\ lotteries' = [lotteries EXCEPT ![l] =
       IF currentCount >= maxEntries THEN [r EXCEPT !.pc = "done", !.result = "Failed"]
       ELSE IF Len(r.prizes) = 0 THEN [r EXCEPT !.pc = "done", !.result = "Error"]
       ELSE [r EXCEPT !.pc = "incGet", !.prize = r.prizes[Min(randomIndex, Len(r.prizes))]]]
  /\ UNCHANGED <<storage, lottery_prize, user_lottery_draws, nonLotteryVars>>

\* database version, incrementUserDrawCount: the read of the user's rows returns
DbIncGet(l) ==
  LET r == lotteries[l] IN
  /\ storage = "database"
  /\ r.pc = "incGet"
  /\ lotteries' = [lotteries EXCEPT ![l] =
       IF EntriesOf(user_lottery_draws, r.userId) = {}
         THEN [r EXCEPT !.pc = "incCreate"]
         ELSE [r EXCEPT !.pc = "incSet", !.count = DrawCount(user_lottery_draws, r.userId)]]
  /\ UNCHANGED <<storage, lottery_prize, user_lottery_draws, nonLotteryVars>>

\* database version, incrementUserDrawCount: a row with count 1 is created; the
\* command reads the pool again for its answer
DbIncCreate(l) ==
  LET r == lotteries[l] IN
  /\ storage = "database"
  /\ r.pc = "incCreate"
  /\ user_lottery_draws' = Append(user_lottery_draws, [userId |-> r.userId, drawCount |-> 1])
  /\ lotteries' = [lotteries EXCEPT ![l] = [r EXCEPT !.pc = "done", !.result = Drawn(r.prize)]]
  /\ UNCHANGED <<storage, lottery_prize, nonLotteryVars>>

\* database version, incrementUserDrawCount: the rows of the user are set to
\* the count read plus one; a row that is gone by now is not written
DbIncSet(l) ==
  LET r == lotteries[l] IN
  /\ storage = "database"
  /\ r.pc = "incSet"
  /\ user_lottery_draws' =
       IF EntriesOf(user_lottery_draws, r.userId) = {} THEN user_lottery_draws
       ELSE SetCount(user_lottery_draws, r.userId, r.count + 1)
  /\ lotteries' = [lotteries EXCEPT ![l] = [r EXCEPT !.pc = "done", !.result = Drawn(r.prize)]]
  /\ UNCHANGED <<storage, lottery_prize, nonLotteryVars>>

\* a pool as lottery.pool.add has built it, nobody has drawn
InitLottery ==
  /\ now = 0
  /\ raffle_activity = [a \in Activities |-> NoActivity]
  /\ raffle_prize = [a \in Activities |-> <<>>]
  /\ raffle_participant = [a \in Activities |-> <<>>]
  /\ raffle_winner = [a \in Activities |-> <<>>]
  /\ timers = <<>>
  /\ timeouts = {}
  /\ draws = [d \in DrawIds |-> IdleDraw]
  /\ joins = [j \in JoinIds |-> IdleJoin]
  /\ cancels = [c \in CancelIds |-> IdleCancel]
  /\ init = IdleInit
  /\ creates = IdleCreate
  /\ deletes = IdleDelete
  /\ storage \in {"file", "database"}
  /\ lottery_prize \in {PoolOf(S) : S \in SUBSET (1..(MaxPrizes + MaxNone))}
  /\ user_lottery_draws = <<>>
  /\ lotteries = [l \in LotteryIds |-> IdleLottery]
  /\ restarts = 0
  /\ faults = 0

NextLottery ==
  \/ \E u \in Users : LotteryDraw(u)
  \/ \E l \in LotteryIds : FileLoadPool(l)
  \/ \E l \in LotteryIds, k \in 1..(MaxPrizes + MaxNone) : FileLoadEntries(l, k)
  \/ \E l \in LotteryIds : FileSavePool(l)
  \/ \E l \in LotteryIds : FileSaveEntries(l)
  \/ \E l \in LotteryIds : DbGetPool(l)
  \/ \E l \in LotteryIds : DbGetCount(l)
  \/ \E l \in LotteryIds : DbDrawGetPool(l)
  \/ \E l \in LotteryIds, k \in 1..(MaxPrizes + MaxNone) : DbDrawGetCount(l, k)
  \/ \E l \in LotteryIds : DbIncGet(l)
  \/ \E l \in LotteryIds : DbIncCreate(l)
  \/ \E l \in LotteryIds : DbIncSet(l)

SpecLottery == InitLottery /\ [][NextLottery]_vars

\* ----- the system without database failures, under the scheduling of the event
\* ----- loop: a due timeout fires and an awaited call that does not fail returns
NextLive ==
  \/ Tick
  \/ \E a \in CreateIds, t \in Times : CreateActivity(a, t)
  \/ \E a \in CreateIds, pz \in PrizeLists : AddPrizes(a, pz)
  \/ \E a \in CreateIds : Activate(a)
  \/ TimerFires
  \/ \E d \in DrawIds : PerformGet(d)
  \/ \E d \in DrawIds : DrawGet(d)
  \/ \E d \in DrawIds : DrawRandom(d)
  \/ \E d \in DrawIds : DrawUpdate(d)
  \/ \E d \in DrawIds : DrawNotify(d)
  \/ \E d \in DrawIds : DrawCatch(d)
  \/ \E u \in Users, a \in CreateIds : JoinList(u, a)
  \/ \E j \in JoinIds : JoinHas(j)
  \/ \E j \in JoinIds : JoinGet(j)
  \/ \E j \in JoinIds : JoinCreate(j)
  \/ \E a \in CreateIds : CancelLoad(a)
  \/ \E c \in CancelIds : CancelSave(c)
  \/ InitQuery
  \/ InitResume
  \/ Crash
  \/ Reload

Fairness ==
  /\ WF_vars(TimerFires)
  /\ WF_vars(InitQuery)
  /\ WF_vars(InitResume)
  /\ \A d \in DrawIds :
       /\ WF_vars(PerformGet(d))
       /\ WF_vars(DrawGet(d))
       /\ WF_vars(DrawRandom(d))
       /\ WF_vars(DrawUpdate(d))
       /\ WF_vars(DrawNotify(d))
       /\ WF_vars(DrawCatch(d))
  /\ \A j \in JoinIds : WF_vars(JoinHas(j)) /\ WF_vars(JoinGet(j)) /\ WF_vars(JoinCreate(j))
  /\ \A c \in CancelIds : WF_vars(CancelSave(c))

SpecLive == Init /\ [][NextLive]_vars /\ Fairness

\* ----- the claims ---------------------------------------------------------------------------
\* drawWinners has read an active activity and started its loops
Allocated(d) == draws[d].prizes # <<>>

\* drawWinners has returned its winners to performRaffleDraw
Returned(d) == draws[d].notice # "none"

WinnersOfLine(rows, l) == {k \in DOMAIN rows : rows[k].prizeName = l}

\* C1: the winner rows of an activity are all written by one execution of the
\* draw: no two executions of drawWinners write winners for the same activity.
C1_SingleDrawExecution ==
  \A a \in Activities : \A k, m \in DOMAIN raffle_winner[a] :
    raffle_winner[a][k].by = raffle_winner[a][m].by

C3_JoinExclusive ==
  \A a \in Activities, u \in Users :
    /\ Cardinality(RowsOf(a, u)) <= 1
    /\ Cardinality({j \in JoinIds : /\ joins[j].activityId = a
                                    /\ joins[j].userId = u
                                    /\ joins[j].result = "Joined"}) <= 1

\* C4: a join that was answered Joined is in the participants every draw of the
\* activity allocates from: no join is accepted and left out of the draw.
C4_JoinedIsDrawn ==
  \A j \in JoinIds, d \in DrawIds :
    (joins[j].result = "Joined" /\ Allocated(d) /\ draws[d].activityId = joins[j].activityId)
      => joins[j].userId \in Range(draws[d].participants)

C6_WinnerLimits ==
  \A a \in Activities :
    /\ \A k, m \in DOMAIN raffle_winner[a] :
         k # m => raffle_winner[a][k].userId # raffle_winner[a][m].userId
    /\ \A l \in DOMAIN raffle_prize[a] :
         Cardinality(WinnersOfLine(raffle_winner[a], l)) <= raffle_prize[a][l]

\* C7: a draw whose drawWinners reads an active activity without participants
\* does not throw: it goes on to the status update with no winner, and the
\* update makes the activity drawn without writing a winner row.
C7_ZeroParticipants ==
  [][\A d \in DrawIds :
       LET a == draws[d].activityId IN
       /\ ( /\ draws[d].pc = "draw"
            /\ draws'[d].pc \notin {"draw", "killed"}
            /\ faults' = faults
            /\ raffle_activity[a].status = "active"
            /\ raffle_participant[a] = <<>> )
          => (draws'[d].pc = "update" /\ draws'[d].winners = <<>>)
       /\ ( /\ draws[d].pc = "update"
            /\ draws[d].participants = <<>>
            /\ draws'[d].pc = "notify" )
          => /\ raffle_activity'[a].status = "drawn"
             /\ raffle_winner' = raffle_winner
             /\ draws'[d].winners = <<>>
             /\ draws'[d].threw = "no"]_vars

C7_Witness ==
  \E d \in DrawIds :
    /\ draws[d].pc = "done"
    /\ Returned(d)
    /\ draws[d].participants = <<>>
    /\ raffle_activity[draws[d].activityId].status = "drawn"
    /\ raffle_winner[draws[d].activityId] = <<>>

\* C8: an activity whose cancellation was written before its deadline stays
\* cancelled and never has a winner row.
C8_CancelledStays ==
  \A c \in CancelIds :
    LET a == cancels[c].activityId IN
    (cancels[c].result = "Ok" /\ cancels[c].savedAt < raffle_activity[a].drawTime)
      => (raffle_activity[a].status = "cancelled" /\ raffle_winner[a] = <<>>)

\* C9: the status drawn and the status cancelled are never left.
C9_TerminalStates ==
  [][\A a \in Activities :
       raffle_activity[a].status \in {"drawn", "cancelled"}
         => raffle_activity'[a].status = raffle_activity[a].status]_vars

IsPositiveInteger(s) ==
  /\ s # <<>>
  /\ \A k \in DOMAIN s : IsDigit(s[k])
  /\ \E k \in DOMAIN s : s[k] # "0"

\* C12: a create command is accepted only with at least one prize line, every
\* count a positive integer and a deadline later than the time of the check; a
\* rejected command has persisted nothing and scheduled no timer.
C12_CreateValidation ==
  /\ creates.pc \in {"save", "done"} =>
       /\ creates.lines # <<>>
       /\ \A k \in DOMAIN creates.lines : IsPositiveInteger(creates.lines[k])
       /\ creates.drawTime > creates.checkedAt
  /\ creates.pc = "rejected" =>
       /\ \A a \in Activities : raffle_activity[a] = NoActivity /\ raffle_prize[a] = <<>>
       /\ timers = <<>> /\ timeouts = {}

\* C13: a join writes only when it is answered Joined, and then exactly one
\* participant row of its user in its activity; a join answered AlreadyJoined
\* or ActivityNotOpen changes no row; no participant row appears otherwise.
C13_JoinFrame ==
  [][/\ \A j \in JoinIds :
          (joins[j].result = "none" /\ joins'[j].result # "none") =>
            IF joins'[j].result = "Joined"
              THEN /\ raffle_participant' =
                        [raffle_participant EXCEPT ![joins'[j].activityId] = Append(@, joins'[j].userId)]
                   /\ UNCHANGED <<raffle_activity, raffle_prize, raffle_winner>>
              ELSE UNCHANGED storeVars
     /\ raffle_participant' # raffle_participant =>
          \E j \in JoinIds : joins[j].result = "none" /\ joins'[j].result = "Joined"]_vars

C13_Witness ==
  \E j, k \in JoinIds :
    /\ joins[j].result = "AlreadyJoined"
    /\ joins[k].result = "Joined"
    /\ joins[k].activityId = joins[j].activityId
    /\ Len(raffle_participant[joins[j].activityId]) = 1

TimeoutsOf(a) == {t \in timeouts : t.activityId = a}

\* C14: after any sequence of scheduleRaffleDraw calls an id has at most one
\* pending timeout, and it is the one the timer map holds for the id.
C14_OneTimerPerActivity ==
  \A a \in Activities :
    /\ Cardinality(TimeoutsOf(a)) <= 1
    /\ a \in DOMAIN timers <=> TimeoutsOf(a) # {}
    /\ \A t \in TimeoutsOf(a) : timers[a] = t.h

C14_Witness ==
  \E a \in Activities :
    /\ a \in DOMAIN timers
    /\ timers[a] = 2
    /\ Cardinality(timeouts) = 1

\* C15: when scheduleRaffleDraw is called for an active activity with a deadline
\* that is not in the future, the activity is drawn and has no timer when the
\* call returns.
C15_OverdueDrawIsSynchronous ==
  [][\A a \in Activities, t \in Times :
       (ScheduleCall(a, t) /\ t - now <= 0 /\ raffle_activity[a].status = "active")
         => (raffle_activity'[a].status = "drawn" /\ a \notin DOMAIN timers')]_vars

\* C16: a call of cancelTimer for an id leaves no pending timeout and no map
\* entry of the id, leaves the timeouts and map entries of the other ids and the
\* store as they are, and changes nothing when the id has no timer.
C16_CancelTimerFrame ==
  [][\A a \in Activities :
       CancelTimerCall(a) =>
         /\ \A t \in timeouts' : t.activityId # a
         /\ a \notin DOMAIN timers'
         /\ timeouts' = timeouts \ TimeoutsOf(a)
         /\ DOMAIN timers' = (DOMAIN timers) \ {a}
         /\ \A x \in DOMAIN timers' : timers'[x] = timers[x]
         /\ UNCHANGED storeVars
         /\ a \notin DOMAIN timers => UNCHANGED vars]_vars

C16_Witness ==
  \E a, b \in Activities :
    /\ a # b
    /\ b \in DOMAIN timers /\ TimeoutsOf(b) # {}
    /\ a \notin DOMAIN timers /\ TimeoutsOf(a) = {}
    /\ timers[b] = 3
    /\ now = 0

\* C17: when initializeRaffleTimers completes, every active activity whose
\* deadline is in the future (and that no raffle.cancel is about to cancel) has
\* exactly one timer, every active activity whose deadline has passed has a
\* timer that is due or an execution of its draw, and no pending, drawn or
\* cancelled activity has a timer.
C17_InitProcessesActiveOnly ==
  [][(init.pc \in {"query", "await"} /\ init'.pc = "idle") =>
       \A a \in Activities :
         LET st == raffle_activity'[a].status
             pending == {t \in timeouts' : t.activityId = a}
         IN /\ ( /\ st = "active"
                 /\ raffle_activity'[a].drawTime > now'
                 /\ \A c \in CancelIds : ~(cancels'[c].pc = "save" /\ cancels'[c].activityId = a) )
               => (Cardinality(pending) = 1 /\ a \in DOMAIN timers')
            /\ (st = "active" /\ raffle_activity'[a].drawTime <= now')
               => \/ pending # {}
                  \/ \E d \in DrawIds : draws'[d].activityId = a
            /\ st \in {"pending", "drawn", "cancelled"}
               => (pending = {} /\ a \notin DOMAIN timers')]_vars

\* C18: a store operation on an id that has no row in raffle_activity persists
\* nothing and does not report success: no step adds a row to raffle_prize,
\* raffle_participant or raffle_winner under an id without an activity, the id
\* stays without an activity, and no addParticipant that ends on such an id
\* returns true.
C18_UnknownIdPersistsNothing ==
  [][\A a \in Activities :
       raffle_activity[a].status = "absent" =>
         /\ raffle_activity'[a] = raffle_activity[a]
         /\ Len(raffle_prize'[a]) <= Len(raffle_prize[a])
         /\ Len(raffle_participant'[a]) <= Len(raffle_participant[a])
         /\ Len(raffle_winner'[a]) <= Len(raffle_winner[a])
         /\ \A j \in JoinIds :
              (joins[j].activityId = a /\ joins[j].pc # "done" /\ joins'[j].pc = "done")
                => joins'[j].result # "Joined"]_vars

\* C19: deleteActivity purges an activity with all its children or not at all:
\* whenever the last deleteActivity has ended, by its last remove or by a
\* failure, the activity it was called for is either gone with every prize
\* line, participant and winner row of its id, or it is there with its prize
\* lines.
C19_DeleteIsAtomic ==
  deletes.pc \in {"done", "failed"} =>
    LET a == deletes.activityId IN
    IF raffle_activity[a].status = "absent"
      THEN raffle_prize[a] = <<>> /\ raffle_participant[a] = <<>> /\ raffle_winner[a] = <<>>
      ELSE raffle_prize[a] # <<>>

\* C20: while an activity has its row, no step changes the id or the drawTime
\* of the row, and cancelActivity changes the status of its activity and
\* nothing else in the table.
C20_IdAndDeadlineFixed ==
  [][/\ \A a \in Activities :
          (raffle_activity[a].status # "absent" /\ raffle_activity'[a].status # "absent")
            => /\ raffle_activity'[a].id = raffle_activity[a].id
               /\ raffle_activity'[a].drawTime = raffle_activity[a].drawTime
     /\ \A a \in Activities :
          CancelActivityCall(a) =>
            \A b \in Activities :
              raffle_activity'[b] =
                IF b = a /\ raffle_activity[b].status # "absent"
                  THEN [raffle_activity[b] EXCEPT !.status = "cancelled"]
                  ELSE raffle_activity[b]]_vars

\* an activity that has been announced, joined, drawn with a winner and then
\* cancelled, with the id and the deadline it was stored with
C20_Witness ==
  \E a \in Activities :
    /\ raffle_activity[a] = [Row(a, "cancelled", MaxTime) EXCEPT !.announceMessageId = 1]
    /\ raffle_participant[a] # <<>>
    /\ raffle_winner[a] # <<>>
    /\ \E d \in DrawIds : draws[d].activityId = a /\ draws[d].pc = "done"

\* the lottery.draw commands of a user that have drawn an entry
DrawsOf(u) ==
  {l \in LotteryIds : lotteries[l].userId = u /\ lotteries[l].result \in {"Won", "NoWin"}}

\* C21: a user draws at most once from the pool: of the lottery.draw commands
\* of one user at most one hands out an entry, and no recorded draw count
\* exceeds 1.
C21_OneDrawPerUser ==
  /\ \A u \in Users : Cardinality(DrawsOf(u)) <= 1
  /\ \A k \in DOMAIN user_lottery_draws : user_lottery_draws[k].drawCount <= 1

\* the lottery.draw commands that have drawn an entry
AllDraws == UNION {DrawsOf(u) : u \in Users}

\* C22: a draw consumes the entry it hands out: an entry a command has drawn is
\* not in the pool any more, no entry is drawn by two commands, and every
\* change of the pool takes exactly one entry out of it.
C22_DrawConsumesPrize ==
  /\ [](\A l \in AllDraws :
          /\ \A k \in DOMAIN lottery_prize : lottery_prize[k].id # lotteries[l].prize.id
          /\ \A m \in AllDraws : m # l => lotteries[m].prize.id # lotteries[l].prize.id)
  /\ [][lottery_prize' # lottery_prize => Len(lottery_prize') = Len(lottery_prize) - 1]_vars

\* the pool a lottery.draw command has before it when it decides whether the
\* lottery has ended, and the place at which it decides
SeenPool(l) == IF storage = "file" THEN lotteries[l].prizes ELSE lottery_prize

Decides(l) == lotteries[l].pc = (IF storage = "file" THEN "entries" ELSE "pool")

OnlyNone(prizes) == prizes # <<>> /\ \A k \in DOMAIN prizes : prizes[k].none

\* C23: a lottery.draw that finds only "none" tickets in the pool is answered
\* as ended, and no step of a command that is answered so writes the pool or
\* the draw counts.
C23_OnlyNoneIsEnded ==
  [][\A l \in LotteryIds :
       lotteries'[l] # lotteries[l] =>
         /\ (Decides(l) /\ OnlyNone(SeenPool(l)))
              => (lotteries'[l].pc = "done" /\ lotteries'[l].result = "Ended")
         /\ (lotteries'[l].result = "Ended" \/ lotteries[l].pc \in {"idle", "pool"})
              => (lottery_prize' = lottery_prize /\ user_lottery_draws' = user_lottery_draws)]_vars

\* a command has been answered as ended on a pool of "none" tickets
C23_Witness ==
  \E l \in LotteryIds :
    /\ lotteries[l].result = "Ended"
    /\ OnlyNone(lotteries[l].prizes)
    /\ OnlyNone(lottery_prize)

\* The random indices of one execution of drawWinners form a sequence; with a
\* uniform Math.random() every sequence is equally likely, because the number
\* of passes and the number of indices to choose from in each pass are fixed
\* by the prize lines and the number of participants.  Paths counts the
\* sequences from a place in the loops with n participants left, WinPaths
\* those in which participant p is drawn.
RECURSIVE Paths(_, _, _, _)
Paths(pz, line, i, n) ==
  LET pos == LoopPos(pz, line, i, n) IN
  IF pos.line > Len(pz) THEN 1 ELSE n * Paths(pz, pos.line, pos.i + 1, n - 1)

RECURSIVE WinPaths(_, _, _, _, _)
RECURSIVE WinPathsFrom(_, _, _, _, _, _)
WinPathsFrom(pz, line, i, avail, p, k) ==
  IF k > Len(avail) THEN 0
  ELSE (IF avail[k] = p
          THEN Paths(pz, line, i + 1, Len(avail) - 1)
          ELSE WinPaths(pz, line, i + 1, RemoveAt(avail, k), p))
       + WinPathsFrom(pz, line, i, avail, p, k + 1)

WinPaths(pz, line, i, avail, p) ==
  LET pos == LoopPos(pz, line, i, Len(avail)) IN
  IF pos.line > Len(pz) THEN 0 ELSE WinPathsFrom(pz, pos.line, pos.i, avail, p, 1)

\* C24 as stated: under a uniform random index every participant wins with
\* probability totalPrizeCount / participantCount, that is, is drawn in that
\* share of the equally likely index sequences.
C24_WinProbabilityIsRatio ==
  \A d \in DrawIds :
    Allocated(d) =>
      LET r == draws[d]
          n == Len(r.participants)
      IN \A p \in Range(r.participants) :
           WinPaths(r.prizes, 1, 0, r.participants, p) * n
             = SumCounts(r.prizes) * Paths(r.prizes, 1, 0, n)

\* C24, amended: under a uniform random index every participant wins with
\* probability min(totalPrizeCount, participantCount) / participantCount.
C24_WinProbabilityIsUniform ==
  \A d \in DrawIds :
    Allocated(d) =>
      LET r == draws[d]
          n == Len(r.participants)
      IN \A p \in Range(r.participants) :
           WinPaths(r.prizes, 1, 0, r.participants, p) * n
             = Min(SumCounts(r.prizes), n) * Paths(r.prizes, 1, 0, n)

\* a draw over two prize lines has left participants without a prize
C24_Witness ==
  \E d \in DrawIds :
    /\ Returned(d)
    /\ Len(draws[d].prizes) = 2
    /\ Len(draws[d].winners) = SumCounts(draws[d].prizes)
    /\ Len(draws[d].participants) > Len(draws[d].winners) + 1

\* the executions of drawWinners that are between their checks and their return
\* for activity a
DrawingOf(a) ==
  {d \in DrawIds : draws[d].activityId = a /\ draws[d].pc \in {"create", "update", "catch"}}

\* C25: winner rows are persisted together with the status drawn: whenever no
\* draw of an activity is in flight, the activity has winner rows only if its
\* status is drawn.
C25_WinnersOnlyWhenDrawn ==
  \A a \in Activities :
    (raffle_winner[a] # <<>> /\ DrawingOf(a) = {}) => raffle_activity[a].status = "drawn"

\* the executions of performRaffleDraw for activity a that have not ended
RunningDraws(a) ==
  {d \in DrawIds : draws[d].activityId = a /\ draws[d].pc \notin {"idle", "done", "killed"}}

\* C26: a draw that fails does not leave its activity stuck: an activity is
\* active only while a timer is pending for it or an execution of its draw is
\* running.
C26_NoStuckActive ==
  \A a \in Activities :
    raffle_activity[a].status = "active" => (TimeoutsOf(a) # {} \/ RunningDraws(a) # {})

\* C27: a participant row is appended to an activity only while the status of
\* the activity is active.
C27_JoinOnlyWhileActive ==
  [][\A a \in Activities :
       Len(raffle_participant'[a]) > Len(raffle_participant[a])
         => raffle_activity[a].status = "active"]_vars

\* C28: an activity becomes drawn only at or after its deadline: no step takes
\* the status from active to drawn while Date.now() is before drawTime.
C28_DrawnOnlyAfterDeadline ==
  [][\A a \in Activities :
       (raffle_activity[a].status = "active" /\ raffle_activity'[a].status = "drawn")
         => now >= raffle_activity[a].drawTime]_vars

\* C29: prize lines are consumed in their stored order: at every point of a
\* draw a prize line has a winner only if every earlier line has its full
\* count of winners, and the winners are recorded line after line; so when the
\* participants run out only the trailing lines are short.
C29_LinesInStoredOrder ==
  \A d \in DrawIds :
    LET w == draws[d].winners
        pz == draws[d].prizes
    IN
    /\ \A k \in DOMAIN w : w[k].prizeName \in DOMAIN pz
    /\ \A k1, k2 \in DOMAIN w : k1 < k2 => w[k1].prizeName <= w[k2].prizeName
    /\ \A line \in DOMAIN pz :
         WinnersOfLine(w, line) # {} =>
           \A earlier \in 1..(line - 1) :
             Cardinality(WinnersOfLine(w, earlier)) = pz[earlier]
    /\ Returned(d) =>
         \A line \in DOMAIN pz :
           Cardinality(WinnersOfLine(w, line)) < pz[line] =>
             /\ Len(w) = Len(draws[d].participants)
             /\ \A later \in (line + 1)..Len(pz) : WinnersOfLine(w, later) = {}

C29_Witness ==
  \E d \in DrawIds :
    /\ Returned(d)
    /\ draws[d].prizes = <<2, 2>>
    /\ Len(draws[d].participants) = 3
    /\ Cardinality(WinnersOfLine(draws[d].winners, 1)) = 2
    /\ Cardinality(WinnersOfLine(draws[d].winners, 2)) = 1

\* C30: a cancellation that meets a draw of the same activity in flight is
\* rejected or changes nothing: no activity is in state cancelled while winner
\* rows exist for it, and no step turns a cancelled activity into a drawn one.
C30_CancelMeetsDraw ==
  /\ [](\A a \in Activities :
          raffle_activity[a].status = "cancelled" => raffle_winner[a] = <<>>)
  /\ [][\A a \in Activities :
          ~(raffle_activity[a].status = "cancelled" /\ raffle_activity'[a].status = "drawn")]_vars

\* C31: store writes do not lose each other's updates: every join that
\* reported success remains among the persisted participants, and no write
\* takes a persisted cancelled or drawn state back.
C31_NoLostUpdate ==
  /\ [](\A j \in JoinIds :
          joins[j].result = "Joined" =>
            joins[j].userId \in Range(raffle_participant[joins[j].activityId]))
  /\ [][\A a \in Activities :
          raffle_activity[a].status \in {"cancelled", "drawn"} =>
            raffle_activity'[a].status = raffle_activity[a].status]_vars

\* C32: timers are independent per activity: once the start-up query has
\* returned, a draw in flight never keeps another activity waiting; every
\* active activity (that no raffle.cancel is about to cancel) has its timer
\* armed or its own draw started, whatever the draws of the others are doing.
Handled(a) ==
  \/ a \in DOMAIN timers
  \/ \E d \in DrawIds : draws[d].activityId = a /\ draws[d].pc # "idle"
  \/ \E c \in CancelIds : cancels[c].activityId = a /\ cancels[c].pc = "save"

C32_TimersIndependent ==
  \A a \in Activities :
    (init.pc # "query" /\ raffle_activity[a].status = "active") => Handled(a)

\* C33: the timer map holds a handle for an id only while the activity is
\* active and no draw of it is executing: the handle is gone once the timer
\* has fired, once raffle.cancel has cancelled the activity and once the
\* activity is drawn.
C33_TimerOnlyWhileActive ==
  \A a \in DOMAIN timers :
    /\ raffle_activity[a].status = "active"
    /\ \A d \in DrawIds :
         draws[d].activityId = a => draws[d].pc \in {"idle", "done", "killed"}

\* C34: the result notification is emitted only after the draw completed: the
\* winner rows of the draw are persisted and the activity is no longer active;
\* and it carries the participant count and the winners of that same draw:
\* the count it states is the number of participants drawWinners allocated from.
Notified(d) == draws[d].pc = "done" /\ draws[d].notice # "none"

C34_NoticeAfterDraw ==
  \A d \in DrawIds :
    Notified(d) =>
      /\ \A k \in DOMAIN draws[d].winners :
           draws[d].winners[k] \in Range(raffle_winner[draws[d].activityId])
      /\ raffle_activity[draws[d].activityId].status # "active"
      /\ draws[d].found = Len(draws[d].participants)

\* C37: the no-participants notice is sent only when the draw wrote no winner
\* row; whenever drawWinners returned a winner the winner notice is sent, and
\* the participant count it states is the number of participants drawWinners
\* allocated from.
C37_NoticeMatchesDraw ==
  \A d \in DrawIds :
    Returned(d) =>
      /\ draws[d].notice = "empty" => draws[d].winners = <<>>
      /\ draws[d].winners # <<>> =>
           /\ draws[d].notice = "winners"
           /\ draws[d].found = Len(draws[d].participants)

\* C35: after the dispose hook has run clearAllTimers the timer map is empty
\* and no timeout armed before is left to start a draw; until the next
\* initializeRaffleTimers no draw starts, and an activity that is active with
\* no draw executing stays active.
InFlight(a) ==
  \E d \in DrawIds : draws[d].activityId = a /\ draws[d].pc \notin {"idle", "done", "killed"}

C35_DisposeStopsTimers ==
  /\ [](init.pc = "disposed" => (timers = <<>> /\ timeouts = {}))
  /\ [][(init.pc = "disposed" /\ init'.pc = "disposed") =>
          /\ \A d \in DrawIds : draws[d].pc = "idle" => draws'[d].pc = "idle"
          /\ \A a \in Activities :
               (raffle_activity[a].status = "active" /\ ~InFlight(a))
                 => raffle_activity'[a].status = "active"]_vars

C35_Witness ==
  /\ init.pc = "disposed"
  /\ timers = <<>>
  /\ \E a \in Activities :
       /\ raffle_activity[a].status = "active"
       /\ now >= raffle_activity[a].drawTime
       /\ \A d \in DrawIds : draws[d].activityId # a

\* C36: in every reachable state every persisted winner row of an activity
\* names a user who has a participant row in the same activity.
C36_WinnersAreParticipants ==
  \A a \in Activities :
    \A k \in DOMAIN raffle_winner[a] :
      raffle_winner[a][k].userId \in Range(raffle_participant[a])

\* C38: in every reachable state in which an activity is drawn, the number of
\* its winner rows is min(sum of its prize-line counts, number of its
\* participant rows), also when drawWinners failed part-way and the catch of
\* performRaffleDraw marked the activity drawn.
C38_DrawnHasAllWinners ==
  \A a \in Activities :
    raffle_activity[a].status = "drawn" =>
      Len(raffle_winner[a]) = Min(SumCounts(raffle_prize[a]), Len(raffle_participant[a]))

\* C39: initializeRaffleTimers is idempotent: when it has completed, after one
\* run and after a second run that follows it, the timer map holds exactly one
\* timer for every active activity with a deadline in the future and nothing
\* else, every pending timeout is the one the map holds for its activity; and
\* no activity is drawn twice.
ExecutionsOf(a) == {d \in DrawIds : draws[d].activityId = a /\ draws[d].pc # "idle"}

C39_InitIsIdempotent ==
  /\ \A a \in Activities : Cardinality(ExecutionsOf(a)) <= 1
  /\ init.pc = "idle" =>
       /\ \A a \in Activities :
            a \in DOMAIN timers <=>
              (raffle_activity[a].status = "active" /\ raffle_activity[a].drawTime > now)
       /\ {[h |-> t.h, activityId |-> t.activityId] : t \in timeouts}
            = {[h |-> timers[a], activityId |-> a] : a \in DOMAIN timers}
       /\ Cardinality(timeouts) = Cardinality(DOMAIN timers)
       /\ \A a, b \in DOMAIN timers : timers[a] = timers[b] => a = b

C39_Witness ==
  /\ init.pc = "idle"
  /\ restarts = 1
  /\ timers # <<>>
  /\ \E a \in Activities :
       raffle_activity[a].status = "drawn" /\ raffle_winner[a] # <<>>

\* C40: a result notification that could not be delivered does not change the
\* persisted outcome of the draw: the activity is drawn, its winner rows are
\* those the draw returned, the execution has ended without entering the catch
\* of performRaffleDraw, and no other execution of the draw exists.
Undelivered(d) == draws[d].notice = "undelivered"

C40_NoticeFailureIsHarmless ==
  \A d \in DrawIds :
    Undelivered(d) =>
      /\ draws[d].pc = "done"
      /\ draws[d].threw = "no"
      /\ raffle_activity[draws[d].activityId].status = "drawn"
      /\ raffle_winner[draws[d].activityId] = draws[d].winners
      /\ ExecutionsOf(draws[d].activityId) = {d}

C40_Witness ==
  \E d \in DrawIds :
    /\ Undelivered(d)
    /\ draws[d].winners # <<>>
    /\ raffle_activity[draws[d].activityId].status = "drawn"

====
